---------------------------- MODULE Spec2Model ----------------------------
(* A model of macro-factor-rs: the Firebase token cache (src/src/auth.rs),  *)
(* the Firestore typed-value codec (src/src/firestore.rs) and the           *)
(* MacroFactor client's year-bucket reads and masked writes                *)
(* (src/src/client.rs).                                                    *)
(*                                                                         *)
(* Three specifications share the module's variables; each one drives one  *)
(* part of the program and leaves the variables of the others untouched:   *)
(*   SpecAuth    concurrent get_id_token callers on one FirebaseAuth       *)
(*   SpecCodec   to_firestore_value / parse_firestore_value on JSON values *)
(*   SpecClient  the client's operations against a document store          *)
EXTENDS Integers, Sequences, FiniteSets, TLC

VARIABLES
    \* ---- FirebaseAuth (auth.rs:26-31) and its callers
    refresh_token,   \* Arc<Mutex<String>>: the stored refresh credential
    cached_token,    \* Arc<Mutex<Option<CachedToken>>>
    now,             \* chrono::Utc::now(), in seconds
    ticks,           \* the number of times the clock has moved
    call,            \* per caller: the position and locals of its get_id_token call
    issued,          \* the number of tokens the token endpoint has issued so far
    calls,           \* the number of get_id_token calls begun so far
    epoch,           \* the number of refresh attempts that have ended so far
    \* ---- the value codec (firestore.rs:244-347)
    codec,           \* the value under conversion and the results so far
    \* ---- the client and the document store (client.rs, firestore.rs:64-82, 210-241)
    store,           \* path -> document of the store
    nops,            \* the number of client operations run so far
    op,              \* the client operation last run, its requests and its result
    \* ---- a FoodEntry and the method called on it (models.rs:124-164)
    food_entry,      \* the entry, the method called and what it returned
    \* ---- one call of FirestoreClient::list_collection_ids (firestore.rs:122-172)
    lister           \* its position, its locals, and the requests and pages so far

authVars == <<refresh_token, cached_token, now, ticks, call, issued, calls, epoch>>
codecVars == <<codec>>
clientVars == <<store, nops, op>>
entryVars == <<food_entry>>
listVars == <<lister>>
vars == <<refresh_token, cached_token, now, ticks, call, issued, calls, epoch, codec,
          store, nops, op, food_entry, lister>>

None == [some |-> FALSE]

(***************************************************************************)
(* Text.  A Rust string is a sequence of one-character strings, so that    *)
(* formatting and parsing are computed and not assumed.                    *)
(***************************************************************************)
Digits == <<"0", "1", "2", "3", "4", "5", "6", "7", "8", "9">>

IsDigit(c) == \E i \in 1..10 : Digits[i] = c

DigitVal(c) == (CHOOSE i \in 1..10 : Digits[i] = c) - 1

\* The width of i64 and u64, scaled from 64 bits.
IntBits == 13

RECURSIVE Pow2(_)
Pow2(n) == IF n = 0 THEN 1 ELSE 2 * Pow2(n - 1)

I64Max == Pow2(IntBits - 1) - 1
I64Min == 0 - Pow2(IntBits - 1)
U64Max == Pow2(IntBits) - 1

\* The digits of a natural number, most significant first (Display for integers).
RECURSIVE NatToString(_)
NatToString(n) ==
    IF n < 10 THEN <<Digits[n + 1]>>
    ELSE Append(NatToString(n \div 10), Digits[(n % 10) + 1])

\* i64::to_string / u64::to_string
IntToString(i) == IF i < 0 THEN <<"-">> \o NatToString(0 - i) ELSE NatToString(i)

\* The value of a digit string, or limit + 1 as soon as it exceeds limit.
RECURSIVE DigitsValue(_, _, _)
DigitsValue(s, acc, limit) ==
    IF s = <<>> THEN acc
    ELSE LET nxt == acc * 10 + DigitVal(Head(s))
         IN  IF nxt > limit THEN limit + 1 ELSE DigitsValue(Tail(s), nxt, limit)

AllDigits(s) == \A i \in 1..Len(s) : IsDigit(s[i])

ParseFail == [ok |-> FALSE, v |-> 0]

\* str::parse::<i64>: an optional sign, then at least one digit and nothing else;
\* a value outside i64 is an error.
ParseI64(s) ==
    LET neg == s # <<>> /\ Head(s) = "-"
        signed == s # <<>> /\ Head(s) \in {"-", "+"}
        body == IF signed THEN Tail(s) ELSE s
        limit == IF neg THEN I64Max + 1 ELSE I64Max
    IN  IF body = <<>> \/ ~AllDigits(body) THEN ParseFail
        ELSE LET m == DigitsValue(body, 0, limit)
             IN  IF m > limit THEN ParseFail
                 ELSE [ok |-> TRUE, v |-> IF neg THEN 0 - m ELSE m]

(***************************************************************************)
(* FirebaseAuth: get_id_token and refresh_id_token (auth.rs:95-150).       *)
(*                                                                         *)
(* Every lock().await of the code guards a section with no suspension      *)
(* point inside it, so each such section is one atomic step here; the      *)
(* locks are released between the steps, exactly as the guards are dropped *)
(* in the code (auth.rs:104, 110, 140, 147).                               *)
(***************************************************************************)
MaxCalls == 2
MaxTicks == 1

\* The tasks that share one FirebaseAuth (clones share the two Arc<Mutex<..>>).
Callers == {"c1", "c2"}

\* auth.rs:100, the safety margin in seconds
Margin == 60
\* auth.rs:136, the lifetime assumed when expires_in does not parse
DefaultExpiresIn == 3600

\* How far the clock moves in one step.
TickSteps == {60, 3600}

\* The expires_in strings the token endpoint may send.
ExpiresInPool == {<<"6", "0">>, <<"s", "o", "o", "n">>}

IdleCall ==
    [pc |-> "idle", seen |-> None, seen_at |-> 0, rt |-> 0, resp |-> None,
     expires_at |-> 0, result |-> None, reqs |-> 0, miss_epoch |-> 0]

AuthInit ==
    /\ refresh_token = 0
    /\ cached_token = None
    /\ now = 0
    /\ ticks = 0
    /\ call = [c \in Callers |-> IdleCall]
    /\ issued = 0
    /\ calls = 0
    /\ epoch = 0

CodecIdle == [stage |-> "off"]

ClientIdle == [name |-> "off"]

NoStore == [q \in {} |-> 0]

ClientOff == store = NoStore /\ nops = 0 /\ op = ClientIdle

EntryIdle == [call |-> "off"]

ListIdle == [pc |-> "off"]

InitAuth ==
    /\ AuthInit
    /\ codec = CodecIdle
    /\ ClientOff
    /\ food_entry = EntryIdle
    /\ lister = ListIdle

\* A caller enters get_id_token (auth.rs:95).
GetIdToken(c) ==
    /\ call[c].pc \in {"idle", "done_ok", "done_err"}
    /\ calls < MaxCalls
    /\ calls' = calls + 1
    /\ call' = [call EXCEPT ![c] = [IdleCall EXCEPT !.pc = "check"]]
    /\ UNCHANGED <<refresh_token, cached_token, now, ticks, issued, epoch>>
    /\ UNCHANGED <<codecVars, clientVars, entryVars, listVars>>

\* A variant that also takes a token expiring exactly at now + 60 s.
TokenValidStale(tok, t) == tok.some /\ tok.expires_at >= t + Margin

\* auth.rs:99-100: a cached token is used while it expires later than now + 60 s.
TokenValid(tok, t) == tok.some /\ tok.expires_at > t + Margin

\* auth.rs:97-106: under the cached_token lock, return the cached token or go on
\* to refresh_id_token.
CheckCache(c) ==
    /\ call[c].pc = "check"
    /\ call' = [call EXCEPT ![c] =
         IF TokenValid(cached_token, now)
         THEN [@ EXCEPT !.pc = "done_ok", !.seen = cached_token, !.seen_at = now,
                        !.result = [some |-> TRUE, id_token |-> cached_token.id_token]]
         ELSE [@ EXCEPT !.pc = "refresh", !.seen = cached_token, !.seen_at = now,
                        !.miss_epoch = epoch]]
    /\ UNCHANGED <<refresh_token, cached_token, now, ticks, issued, calls, epoch>>
    /\ UNCHANGED <<codecVars, clientVars, entryVars, listVars>>

\* auth.rs:110-126: clone the refresh token under its lock and send the request.
SendRefresh(c) ==
    /\ call[c].pc = "refresh"
    /\ call' = [call EXCEPT ![c] = [@ EXCEPT !.pc = "wait", !.rt = refresh_token,
                                              !.reqs = @ + 1]]
    /\ UNCHANGED <<refresh_token, cached_token, now, ticks, issued, calls, epoch>>
    /\ UNCHANGED <<codecVars, clientVars, entryVars, listVars>>

\* The token endpoint answers a request in flight: a new id token with a refresh
\* token (the one sent, or a rotated one) and a lifetime, or a failure (a
\* transport error, a non-success status, or a body that does not decode).
Respond(c) ==
    /\ call[c].pc = "wait"
    /\ \/ \E rotate \in BOOLEAN, e \in ExpiresInPool :
            /\ issued' = issued + 1
            /\ call' = [call EXCEPT ![c] = [@ EXCEPT !.pc = "recv", !.resp =
                 [some |-> TRUE, kind |-> "ok", id_token |-> issued + 1,
                  refresh_token |-> IF rotate THEN issued + 1 ELSE call[c].rt,
                  expires_in |-> e]]]
       \/ \E k \in {"transport", "status", "decode"} :
            /\ issued' = issued
            /\ call' = [call EXCEPT ![c] = [@ EXCEPT !.pc = "recv", !.resp =
                 [some |-> TRUE, kind |-> k, id_token |-> 0, refresh_token |-> 0,
                  expires_in |-> <<>>]]]
    /\ UNCHANGED <<refresh_token, cached_token, now, ticks, calls, epoch>>
    /\ UNCHANGED <<codecVars, clientVars, entryVars, listVars>>

\* auth.rs:136: expires_in.parse().unwrap_or(3600)
ExpiresIn(s) == IF ParseI64(s).ok THEN ParseI64(s).v ELSE DefaultExpiresIn

\* A variant of the failure path that sends the request once more.
FailRetry(c) ==
    /\ call[c].reqs < 2
    /\ call' = [call EXCEPT ![c] = [@ EXCEPT !.pc = "refresh"]]
    /\ epoch' = epoch

\* auth.rs:126, 128-132, 134: `?` and the status check return the error at once.
FailReturn(c) ==
    /\ call' = [call EXCEPT ![c] = [@ EXCEPT !.pc = "done_err"]]
    /\ epoch' = epoch + 1

\* auth.rs:126-137: the response is examined; a failure is returned to the caller,
\* a success fixes the expiry from the clock read now.
HandleResponse(c) ==
    /\ call[c].pc = "recv"
    /\ IF call[c].resp.kind = "ok"
       THEN /\ call' = [call EXCEPT ![c] = [@ EXCEPT !.pc = "write_rt",
                          !.expires_at = now + ExpiresIn(call[c].resp.expires_in)]]
            /\ epoch' = epoch
       ELSE FailReturn(c)
    /\ UNCHANGED <<refresh_token, cached_token, now, ticks, issued, calls>>
    /\ UNCHANGED <<codecVars, clientVars, entryVars, listVars>>

\* auth.rs:140: the refresh token of the response replaces the stored one.
WriteRefreshToken(c) ==
    /\ call[c].pc = "write_rt"
    /\ refresh_token' = call[c].resp.refresh_token
    /\ call' = [call EXCEPT ![c] = [@ EXCEPT !.pc = "write_cache"]]
    /\ UNCHANGED <<cached_token, now, ticks, issued, calls, epoch>>
    /\ UNCHANGED <<codecVars, clientVars, entryVars, listVars>>

\* auth.rs:144-147: Some(CachedToken { id_token, expires_at })
NewCachedToken(c) ==
    [some |-> TRUE, id_token |-> call[c].resp.id_token, expires_at |-> call[c].expires_at]

\* auth.rs:143-149: the new id token is cached and returned.
WriteCache(c) ==
    /\ call[c].pc = "write_cache"
    /\ cached_token' = NewCachedToken(c)
    /\ call' = [call EXCEPT ![c] = [@ EXCEPT !.pc = "done_ok",
                  !.result = [some |-> TRUE, id_token |-> call[c].resp.id_token]]]
    /\ epoch' = epoch + 1
    /\ UNCHANGED <<refresh_token, now, ticks, issued, calls>>
    /\ UNCHANGED <<codecVars, clientVars, entryVars, listVars>>

\* Time passes.
Tick ==
    /\ ticks < MaxTicks
    /\ ticks' = ticks + 1
    /\ \E d \in TickSteps : now' = now + d
    /\ UNCHANGED <<refresh_token, cached_token, call, issued, calls, epoch>>
    /\ UNCHANGED <<codecVars, clientVars, entryVars, listVars>>

AuthNext ==
    \/ \E c \in Callers : GetIdToken(c)
    \/ \E c \in Callers : CheckCache(c)
    \/ \E c \in Callers : SendRefresh(c)
    \/ \E c \in Callers : Respond(c)
    \/ \E c \in Callers : HandleResponse(c)
    \/ \E c \in Callers : WriteRefreshToken(c)
    \/ \E c \in Callers : WriteCache(c)
    \/ Tick

SpecAuth == InitAuth /\ [][AuthNext]_vars

(***************************************************************************)
(* Claims about the token cache, checked under SpecAuth.                   *)
(***************************************************************************)
InFlight == {c \in Callers : call[c].pc = "wait"}

\* C1: under any interleaving of concurrent get_id_token calls on one
\* FirebaseAuth, at most one refresh request is in flight at any time.
C1_AtMostOneRefreshInFlight == Cardinality(InFlight) <= 1

\* Two calls are concurrent observers of the same stale cache when both saw the
\* miss while no refresh attempt had ended in between (the same epoch).
SawMiss(c) ==
    \/ call[c].pc \in {"refresh", "wait", "recv", "write_rt", "write_cache", "done_err"}
    \/ (call[c].pc = "done_ok" /\ call[c].reqs > 0)

SawSameMiss(c1, c2) ==
    /\ c1 # c2
    /\ SawMiss(c1)
    /\ SawMiss(c2)
    /\ call[c1].miss_epoch = call[c2].miss_epoch

\* C2: when several concurrent get_id_token callers all observe an expired or
\* absent cache, exactly one refresh request is issued, and every one of those
\* callers returns the token of that single refresh.
C2_OneRefreshServesAllWaiters ==
    \A c1, c2 \in Callers :
        SawSameMiss(c1, c2) =>
            /\ call[c1].reqs + call[c2].reqs <= 1
            /\ (call[c1].pc = "done_ok" /\ call[c2].pc = "done_ok"
                    => call[c1].result = call[c2].result)

\* The condition of the claim, restated: the expiry is strictly later than now + 60 s.
C3_Fresh(tok, t) == tok.some /\ tok.expires_at - t > 60

C3_State ==
    \A c \in Callers :
        LET k == call[c]
            refreshing == \/ k.pc \in {"refresh", "wait", "recv", "write_rt",
                                       "write_cache", "done_err"}
                          \/ (k.pc = "done_ok" /\ k.reqs > 0)
        IN  /\ (k.pc = "done_ok" /\ k.reqs = 0) =>
                  /\ C3_Fresh(k.seen, k.seen_at)
                  /\ k.result = [some |-> TRUE, id_token |-> k.seen.id_token]
            /\ refreshing => ~C3_Fresh(k.seen, k.seen_at)
            /\ (k.pc = "done_ok" /\ k.reqs > 0) =>
                  /\ k.reqs = 1
                  /\ k.result = [some |-> TRUE, id_token |-> k.resp.id_token]

C3_Step ==
    \A c \in Callers :
        LET k == call[c]
            k2 == call'[c]
        IN  /\ (k2.pc = "write_cache" /\ k.pc # "write_cache") =>
                  /\ k.pc = "write_rt"
                  /\ refresh_token' = k.resp.refresh_token
            /\ (k2.pc = "done_ok" /\ k.pc # "done_ok" /\ k2.reqs > 0) =>
                  /\ k.pc = "write_cache"
                  /\ cached_token'.some
                  /\ cached_token'.id_token = k.resp.id_token
                  /\ cached_token'.expires_at = k.expires_at
            /\ (k2.pc = "write_rt" /\ k.pc # "write_rt") =>
                  /\ k.resp.kind = "ok"
                  /\ k2.expires_at - now =
                        (IF ParseI64(k.resp.expires_in).ok
                         THEN ParseI64(k.resp.expires_in).v ELSE 3600)

\* C3: get_id_token returns the cached id token, and sends no refresh request,
\* whenever a token is cached whose expiry is strictly later than now + 60 s;
\* otherwise it sends one refresh request, stores the refresh token and the new
\* id token with its expiry from the response, and returns the new id token.
C3_CachedOrRefreshed == [](C3_State) /\ [][C3_Step]_vars

\* C3 happens: one call has refreshed, and another has been served that very
\* token from the cache without a request.
C3_Witness ==
    \E c1, c2 \in Callers :
        /\ call[c1].pc = "done_ok" /\ call[c1].reqs = 1
        /\ call[c2].pc = "done_ok" /\ call[c2].reqs = 0
        /\ call[c2].result = call[c1].result

C4_State ==
    \A c \in Callers :
        /\ call[c].reqs <= 1
        /\ call[c].pc = "done_err" =>
              /\ call[c].reqs = 1
              /\ call[c].resp.kind \in {"transport", "status", "decode"}
              /\ ~call[c].result.some

C4_Step ==
    \A c \in Callers :
        (call[c].pc = "recv" /\ call[c].resp.kind # "ok" /\ call'[c] # call[c])
            => call'[c].pc = "done_err"

\* C4: when the refresh request fails (a transport error or a non-success
\* status), get_id_token returns an error after exactly one refresh request;
\* the token cache never retries.
C4_FailureReturnsAfterOneRequest == [](C4_State) /\ [][C4_Step]_vars

\* C4 happens: a call has ended in an error after the endpoint refused it.
C4_Witness ==
    \E c \in Callers :
        call[c].pc = "done_err" /\ call[c].resp.kind = "status" /\ call[c].reqs = 1

(***************************************************************************)
(* The value codec (firestore.rs:244-347).                                 *)
(*                                                                         *)
(* A serde_json::Value is a record tagged by its kind.  A Number keeps     *)
(* serde_json's three representations: PosInt (a u64), NegInt (a negative  *)
(* i64) and Float (an f64, held here in tenths); two Numbers are equal     *)
(* only in the same representation, as serde_json compares them.  A typed  *)
(* Firestore value is itself a JSON object, as in the code.  f64 is taken  *)
(* to hold every integer of the scaled width exactly.                      *)
(***************************************************************************)
JNull == [t |-> "Null"]
JBool(b) == [t |-> "Bool", b |-> b]
JStr(s) == [t |-> "Str", s |-> s]
JArr(a) == [t |-> "Arr", a |-> a]
JObj(o) == [t |-> "Obj", o |-> o]
PosInt(u) == [t |-> "Num", n |-> "PosInt", v |-> u]
NegInt(i) == [t |-> "Num", n |-> "NegInt", v |-> i]
Float(tenths) == [t |-> "Num", n |-> "Float", v |-> tenths]

EmptyMap == [k \in {} |-> JNull]

\* json!({k: v})
Obj1(k, v) == JObj([x \in {k} |-> v])

\* json!(n) for an i64 (From<i64> for Number)
JInt(i) == IF i < 0 THEN NegInt(i) ELSE PosInt(i)

\* Value::get(key): only an object has members.
Has(val, k) == val.t = "Obj" /\ k \in DOMAIN val.o

\* Number::as_i64
AsI64(num) ==
    CASE num.n = "PosInt" -> IF num.v <= I64Max THEN [ok |-> TRUE, v |-> num.v] ELSE ParseFail
      [] num.n = "NegInt" -> [ok |-> TRUE, v |-> num.v]
      [] OTHER -> ParseFail

\* Number::as_f64, in tenths
AsF64(num) == IF num.n = "Float" THEN num.v ELSE num.v * 10

\* A variant that writes the integer as a native numeric literal.
EncodeNumberLiteral(num) ==
    IF AsI64(num).ok THEN Obj1("integerValue", JInt(AsI64(num).v))
    ELSE Obj1("doubleValue", Float(AsF64(num)))

\* firestore.rs:249-257.  as_f64 answers for every Number, so the last branch of
\* the code (integerValue of n.to_string()) is never taken.
EncodeNumber(num) ==
    IF AsI64(num).ok THEN Obj1("integerValue", JStr(IntToString(AsI64(num).v)))
    ELSE Obj1("doubleValue", Float(AsF64(num)))

\* firestore.rs:245-271
RECURSIVE to_firestore_value(_)
to_firestore_value(val) ==
    CASE val.t = "Null" -> Obj1("nullValue", JNull)
      [] val.t = "Bool" -> Obj1("booleanValue", val)
      [] val.t = "Num" -> EncodeNumber(val)
      [] val.t = "Str" -> Obj1("stringValue", val)
      [] val.t = "Arr" ->
            Obj1("arrayValue",
                 Obj1("values", JArr([i \in 1..Len(val.a) |-> to_firestore_value(val.a[i])])))
      [] val.t = "Obj" ->
            Obj1("mapValue",
                 Obj1("fields", JObj([k \in DOMAIN val.o |-> to_firestore_value(val.o[k])])))

\* firestore.rs:274-282
to_firestore_fields(obj) ==
    IF obj.t = "Obj" THEN [k \in DOMAIN obj.o |-> to_firestore_value(obj.o[k])]
    ELSE EmptyMap

\* A variant that never parses the payload.
ParseIntegerRaw(i) == i

\* A variant that gives null for a payload that does not parse.
ParseIntegerOrNull(i) ==
    IF i.t = "Str" /\ ParseI64(i.s).ok THEN JInt(ParseI64(i.s).v) ELSE JNull

\* firestore.rs:289-297: the payload of an integerValue
ParseInteger(i) ==
    IF i.t = "Str" /\ ParseI64(i.s).ok THEN JInt(ParseI64(i.s).v) ELSE i

\* firestore.rs:285-334 and 337-347
RECURSIVE parse_firestore_value(_), parse_firestore_fields(_)
parse_firestore_value(val) ==
    CASE Has(val, "stringValue") -> val.o["stringValue"]
      [] Has(val, "integerValue") -> ParseInteger(val.o["integerValue"])
      [] Has(val, "doubleValue") -> val.o["doubleValue"]
      [] Has(val, "booleanValue") -> val.o["booleanValue"]
      [] Has(val, "nullValue") -> JNull
      [] Has(val, "timestampValue") -> val.o["timestampValue"]
      [] Has(val, "referenceValue") -> val.o["referenceValue"]
      [] Has(val, "geoPointValue") -> val.o["geoPointValue"]
      [] Has(val, "bytesValue") -> val.o["bytesValue"]
      [] Has(val, "mapValue") ->
            IF Has(val.o["mapValue"], "fields")
            THEN parse_firestore_fields(val.o["mapValue"].o["fields"])
            ELSE JObj(EmptyMap)
      [] Has(val, "arrayValue") ->
            IF Has(val.o["arrayValue"], "values") /\ val.o["arrayValue"].o["values"].t = "Arr"
            THEN LET values == val.o["arrayValue"].o["values"].a
                 IN  JArr([i \in 1..Len(values) |-> parse_firestore_value(values[i])])
            ELSE JArr(<<>>)
      [] OTHER -> val

parse_firestore_fields(fields) ==
    IF fields.t = "Obj"
    THEN JObj([k \in DOMAIN fields.o |-> parse_firestore_value(fields.o[k])])
    ELSE JNull

\* The longest array and the deepest nesting of the values converted.
MaxLen == 2
MaxDepth == 2

\* The scalars: with the integers at and beyond the ends of i64.
Scalars ==
    {JNull, JBool(TRUE), JBool(FALSE),
     PosInt(0), PosInt(7), PosInt(120), PosInt(I64Max), PosInt(I64Max + 1), PosInt(U64Max),
     NegInt(0 - 1), NegInt(0 - 35), NegInt(I64Min),
     Float(5), Float(0 - 15), Float(700), Float(0),
     JStr(<<>>), JStr(<<"a">>), JStr(<<"1", "2">>)}

\* What stands beside a nested value in an array or an object.
Leaves == {NegInt(0 - 2), JStr(<<"a">>)}

Tails == UNION {[1..n -> Leaves] : n \in 0..(MaxLen - 1)}

Keys == {"a", "integerValue"}

RECURSIVE Nest(_)
Nest(d) ==
    IF d = 0 THEN Scalars
    ELSE LET inner == Nest(d - 1)
         IN  inner \cup {JArr(<<>>), JObj(EmptyMap)}
                   \cup {JArr(<<x>> \o tail) : x \in inner, tail \in Tails}
                   \cup {Obj1(k, x) : k \in Keys, x \in inner}
                   \cup {JObj([q \in Keys |-> IF q = k THEN x ELSE JStr(<<"a">>)]) :
                            k \in Keys, x \in inner}

NativeValues == Nest(MaxDepth)

\* The payloads a typed value may carry on the wire.
WireStrings ==
    {<<"1", "2">>, <<"-", "3">>, <<"+", "5">>, <<"0", "0", "7">>, <<"-", "0">>,
     <<>>, <<"-">>, <<"+">>, <<"a", "b", "c">>, <<"1", ".", "5">>, <<" ", "1">>,
     <<"1", "e", "3">>, <<"1", "-">>,
     IntToString(I64Max), IntToString(I64Max + 1), IntToString(I64Min),
     IntToString(I64Min - 1), IntToString(U64Max)}

WirePayloads ==
    {JStr(w) : w \in WireStrings}
        \cup {JNull, JBool(TRUE), PosInt(7), NegInt(0 - 3), Float(25), JArr(<<PosInt(1)>>),
              JObj(EmptyMap), Obj1("a", JStr(<<"1">>))}

WireKinds ==
    {"stringValue", "integerValue", "doubleValue", "booleanValue", "nullValue",
     "timestampValue", "referenceValue", "geoPointValue", "bytesValue", "mapValue",
     "arrayValue", "unknownValue"}

\* Typed values as another writer may have stored them, well formed or not.
WireValues ==
    {Obj1(k, w) : k \in WireKinds, w \in WirePayloads}
        \cup {Obj1("mapValue", Obj1("fields", w)) : w \in WirePayloads}
        \cup {Obj1("arrayValue", Obj1("values", w)) : w \in WirePayloads}
        \cup {Obj1("arrayValue", Obj1("values", JArr(<<Obj1("integerValue", w)>>))) :
                 w \in WirePayloads}
        \cup {JObj([q \in {"stringValue", "integerValue"} |->
                       IF q = "stringValue" THEN JStr(<<"s">>) ELSE w]) : w \in WirePayloads}
        \cup WirePayloads

CodecInputs ==
    {[stage |-> "input", from |-> "native", val |-> v, enc |-> JNull, dec |-> JNull] :
         v \in NativeValues}
        \cup {[stage |-> "encoded", from |-> "wire", val |-> JNull, enc |-> w, dec |-> JNull] :
                 w \in WireValues}

InitCodec ==
    /\ AuthInit
    /\ codec \in CodecInputs
    /\ ClientOff
    /\ food_entry = EntryIdle
    /\ lister = ListIdle

\* to_firestore_value is applied to the native value.
Encode ==
    /\ codec.stage = "input"
    /\ codec' = [codec EXCEPT !.stage = "encoded", !.enc = to_firestore_value(codec.val)]
    /\ UNCHANGED <<authVars, clientVars, entryVars, listVars>>

\* parse_firestore_value is applied to the typed value.
Decode ==
    /\ codec.stage = "encoded"
    /\ codec' = [codec EXCEPT !.stage = "decoded", !.dec = parse_firestore_value(codec.enc)]
    /\ UNCHANGED <<authVars, clientVars, entryVars, listVars>>

CodecNext == Encode \/ Decode

SpecCodec == InitCodec /\ [][CodecNext]_vars

(***************************************************************************)
(* Claims about the codec, checked under SpecCodec.                        *)
(***************************************************************************)
RoundTripped == codec.stage = "decoded" /\ codec.from = "native"

\* C5 as stated: for every native JSON value v (null, booleans, integers,
\* fractional numbers, strings, arrays and objects, nested, empty ones
\* included), parse_firestore_value(to_firestore_value(v)) = v.
C5_RoundTripEveryValue == RoundTripped => codec.dec = codec.val

\* No integer inside v lies above the largest i64.
RECURSIVE IntegersFitI64(_)
IntegersFitI64(v) ==
    CASE v.t = "Num" -> ~(v.n = "PosInt" /\ v.v > I64Max)
      [] v.t = "Arr" -> \A i \in 1..Len(v.a) : IntegersFitI64(v.a[i])
      [] v.t = "Obj" -> \A k \in DOMAIN v.o : IntegersFitI64(v.o[k])
      [] OTHER -> TRUE

\* C5, amended: for every native JSON value v none of whose integers exceeds
\* the largest signed 64-bit integer, parse_firestore_value(to_firestore_value(v)) = v.
C5_RoundTripWithinI64 ==
    (RoundTripped /\ IntegersFitI64(codec.val)) => codec.dec = codec.val

\* C5 happens: an object holding an array that holds a negative integer has
\* been encoded and decoded back to itself.
C5_Witness ==
    /\ RoundTripped
    /\ codec.val.t = "Obj"
    /\ \E k \in DOMAIN codec.val.o :
          /\ codec.val.o[k].t = "Arr"
          /\ codec.val.o[k].a # <<>>
          /\ codec.val.o[k].a[1] = NegInt(I64Min)
    /\ codec.dec = codec.val
    /\ codec.enc # codec.val

NumberEncoded == codec.stage = "encoded" /\ codec.from = "native" /\ codec.val.t = "Num"

\* s is the decimal string of i: digits with a minus sign for a negative number,
\* no plus sign and no leading zero.
C6_IsDecimalOf(s, i) ==
    /\ s.t = "Str"
    /\ ParseI64(s.s) = [ok |-> TRUE, v |-> i]
    /\ Head(s.s) # "+"
    /\ (Head(s.s) = "-") = (i < 0)
    /\ Len(s.s) > 1 => s.s[IF i < 0 THEN 2 ELSE 1] # "0"

C6_IntegerKind(i) ==
    /\ codec.enc.t = "Obj"
    /\ DOMAIN codec.enc.o = {"integerValue"}
    /\ C6_IsDecimalOf(codec.enc.o["integerValue"], i)

C6_DoubleKind(tenths) ==
    /\ codec.enc.t = "Obj"
    /\ DOMAIN codec.enc.o = {"doubleValue"}
    /\ codec.enc.o["doubleValue"] = Float(tenths)

\* C6 as stated: to_firestore_value encodes every integer as the integer kind
\* with the decimal string of the number as payload, and every fractional
\* number as the double kind with a native numeric payload.
C6_IntegerKindForEveryInteger ==
    NumberEncoded =>
        IF codec.val.n = "Float" THEN C6_DoubleKind(codec.val.v)
        ELSE C6_IntegerKind(codec.val.v)

\* C6, amended: every integer that fits a signed 64-bit integer is encoded as
\* the integer kind with its decimal string as payload; every number held as a
\* float (70.0 included) and every integer above the largest signed 64-bit
\* integer is encoded as the double kind with a native numeric payload.
C6_IntegerKindWithinI64 ==
    NumberEncoded =>
        CASE codec.val.n = "Float" -> C6_DoubleKind(codec.val.v)
          [] codec.val.n = "PosInt" /\ codec.val.v > I64Max -> C6_DoubleKind(codec.val.v * 10)
          [] OTHER -> C6_IntegerKind(codec.val.v)

\* C6 happens: -35 has been encoded as integerValue "-35".
C6_Witness ==
    /\ NumberEncoded
    /\ codec.val = NegInt(0 - 35)
    /\ codec.enc = Obj1("integerValue", JStr(<<"-", "3", "5">>))

IntegerKindDecoded ==
    /\ codec.stage = "decoded"
    /\ codec.from = "wire"
    /\ Has(codec.enc, "integerValue")
    /\ ~Has(codec.enc, "stringValue")

JsonKinds == {"Null", "Bool", "Num", "Str", "Arr", "Obj"}

\* C7: parse_firestore_value of an integer-kind value is the native integer when
\* the payload is a string that parses as an integer, and the raw payload
\* otherwise; decoding fails for no input.
C7_IntegerParsedOrRaw ==
    /\ codec.stage = "decoded" => codec.dec.t \in JsonKinds
    /\ IntegerKindDecoded =>
          LET payload == codec.enc.o["integerValue"]
          IN  IF payload.t = "Str" /\ ParseI64(payload.s).ok
              THEN /\ codec.dec.t = "Num"
                   /\ codec.dec.n \in {"PosInt", "NegInt"}
                   /\ codec.dec.v = ParseI64(payload.s).v
              ELSE codec.dec = payload

\* C7 happens: an integer kind whose payload is one beyond the largest i64 has
\* been decoded to that very string.
C7_Witness ==
    /\ IntegerKindDecoded
    /\ codec.enc.o["integerValue"] = JStr(IntToString(I64Max + 1))
    /\ codec.dec = JStr(IntToString(I64Max + 1))

(***************************************************************************)
(* The client and the document store.                                      *)
(*                                                                         *)
(* Dates (chrono::NaiveDate), their formats, and the keys of a year bucket.*)
(* Every key of the model is ASCII, so a byte offset is a character offset.*)
(***************************************************************************)
\* chrono: the Gregorian leap-year rule
IsLeap(y) == (y % 4 = 0) /\ ((y % 100 # 0) \/ (y % 400 = 0))

DaysInMonth(y, m) ==
    CASE m \in {1, 3, 5, 7, 8, 10, 12} -> 31
      [] m \in {4, 6, 9, 11} -> 30
      [] m = 2 -> IF IsLeap(y) THEN 29 ELSE 28
      [] OTHER -> 0

\* A variant that takes every month to have up to 31 days.
ValidYmdLoose(y, m, d) == m >= 1 /\ m <= 12 /\ d >= 1 /\ d <= 31

\* NaiveDate::from_ymd_opt(year, month, day).is_some()
ValidYmd(y, m, d) == m >= 1 /\ m <= 12 /\ d >= 1 /\ d <= DaysInMonth(y, m)

Date(y, m, d) == [y |-> y, m |-> m, d |-> d]

\* A variant that leaves the later date itself out.
DateLt(a, b) ==
    \/ a.y < b.y
    \/ (a.y = b.y /\ a.m < b.m)
    \/ (a.y = b.y /\ a.m = b.m /\ a.d < b.d)

\* NaiveDate: a <= b
DateLe(a, b) ==
    \/ a.y < b.y
    \/ (a.y = b.y /\ a.m < b.m)
    \/ (a.y = b.y /\ a.m = b.m /\ a.d <= b.d)

\* "%m" and "%d": two digits, zero padded
Pad2(n) == <<Digits[(n \div 10) + 1], Digits[(n % 10) + 1]>>

\* date.format("%m%d")
FormatMmdd(date) == Pad2(date.m) \o Pad2(date.d)

\* date.format("%Y"), for the years 1000 to 9999
FormatYear(date) == IntToString(date.y)

\* date.format("%Y-%m-%d")
FormatYmd(date) == IntToString(date.y) \o <<"-">> \o Pad2(date.m) \o <<"-">> \o Pad2(date.d)

\* str::parse::<u32>().unwrap_or(0): an optional plus sign, then digits only
ParseU32Or0(s) ==
    LET body == IF s # <<>> /\ Head(s) = "+" THEN Tail(s) ELSE s
    IN  IF body = <<>> \/ ~AllDigits(body) THEN 0 ELSE DigitsValue(body, 0, 9999)

\* client.rs:112: key.starts_with('_') || key.len() != 4
IsMetadataKey(key) == (key # <<>> /\ Head(key) = "_") \/ Len(key) # 4

\* client.rs:116-118: the date a key of the bucket of `year` stands for, if any
KeyDate(year, key) ==
    LET month == ParseU32Or0(SubSeq(key, 1, 2))
        day == ParseU32Or0(SubSeq(key, 3, Len(key)))
    IN  IF ValidYmd(year, month, day)
        THEN [some |-> TRUE, date |-> Date(year, month, day)]
        ELSE None

(***************************************************************************)
(* The document store, as the Firestore REST interface presents it to      *)
(* get_document and patch_document.  A document is the map of its fields   *)
(* (key -> typed value); a path without a document is Absent.              *)
(***************************************************************************)
UserId == "uid"

Path(coll, bucket) == <<"users", UserId, coll, bucket>>

Absent == [exists |-> FALSE, fields |-> EmptyMap]

Doc(fields) == [exists |-> TRUE, fields |-> fields]

\* The document at a path.
At(st, path) == IF path \in DOMAIN st THEN st[path] ELSE Absent

\* The character U+0060, which the module's own syntax cannot spell in a string.
Backtick == "backtick"

\* The field a mask path names: a backtick-quoted path names the field between
\* the backticks; an unquoted path must not begin with a digit.
FieldOfPath(fp) ==
    IF Len(fp) >= 2 /\ Head(fp) = Backtick /\ fp[Len(fp)] = Backtick
    THEN [ok |-> TRUE, field |-> SubSeq(fp, 2, Len(fp) - 1)]
    ELSE IF fp = <<>> \/ IsDigit(Head(fp)) \/ Head(fp) = Backtick
         THEN [ok |-> FALSE, field |-> <<>>]
         ELSE [ok |-> TRUE, field |-> fp]

MaskOk(mask) == \A i \in 1..Len(mask) : FieldOfPath(mask[i]).ok

MaskFields(mask) == {FieldOfPath(mask[i]).field : i \in 1..Len(mask)}

\* The fields of a document after a patch with an update mask: a masked field
\* takes the value of the body, or is removed when the body lacks it; every
\* other field of the document stays, and a body field outside the mask is
\* ignored.
PatchedFields(old, fields, mask) ==
    LET named == MaskFields(mask)
        keep == (DOMAIN old \ named) \cup (named \cap DOMAIN fields)
    IN  [k \in keep |-> IF k \in named THEN fields[k] ELSE old[k]]

\* The store after the patch; the document is created when it does not exist.
Patched(st, req) ==
    LET new == Doc(PatchedFields(At(st, req.path).fields, req.fields, req.mask))
    IN  [q \in DOMAIN st \cup {req.path} |-> IF q = req.path THEN new ELSE st[q]]

(***************************************************************************)
(* The client (client.rs).  Its user id is taken as already cached         *)
(* (client.rs:47-49), so get_user_id cannot fail.  What the MacroFactor    *)
(* app has put into the buckets is the store the client starts with.       *)
(***************************************************************************)
MaxOps == 1

Years == {2023, 2024}

DatePool == {Date(2023, 2, 28), Date(2024, 3, 15)}

\* <<start, end>> of the range reads
RangePool ==
    {<<Date(2024, 1, 1), Date(2024, 12, 31)>>,
     <<Date(2023, 2, 1), Date(2024, 2, 29)>>,
     <<Date(2024, 6, 1), Date(2023, 12, 31)>>}

YearCollections == {"scale", "nutrition", "steps"}

Some(x) == [some |-> TRUE, v |-> x]

\* What the app has stored under a day code: an object, or something else.
AppObject ==
    to_firestore_value(JObj([k \in {"w", "k", "st", "s"} |->
        CASE k = "w" -> Float(731)
          [] k = "k" -> JStr(<<"2", "1", "0", "0">>)
          [] k = "st" -> PosInt(900)
          [] OTHER -> JStr(<<"h">>)]))

AppText == to_firestore_value(JStr(<<"n", "o", "n", "e">>))

\* Day codes, real and unreal, and metadata keys
K0229 == <<"0", "2", "2", "9">>
K0230 == <<"0", "2", "3", "0">>
K0315 == <<"0", "3", "1", "5">>
K1301 == <<"1", "3", "0", "1">>
K0000 == <<"0", "0", "0", "0">>
KUpd == <<"_", "u", "p", "d">>
K315 == <<"3", "1", "5">>
\* Four characters that are not four digits, each half a signed number
KPlus == <<"+", "1", "+", "1">>

\* The year buckets of a collection as the app may have left them: per year,
\* the fields of the bucket, or no bucket at all (EmptyMap).
YearLayouts ==
    {[y \in Years |-> IF y = 2023 THEN [k \in {K0229, K0230} |-> AppObject]
                      ELSE [k \in {K0229, K0315} |-> AppObject]],
     [y \in Years |-> IF y = 2023 THEN EmptyMap
                      ELSE [k \in {K1301, K0000, K0229, K0315} |-> AppObject]],
     [y \in Years |-> IF y = 2023 THEN [k \in {K0315} |-> AppObject]
                      ELSE [k \in {KUpd, K315, K0315, KPlus} |->
                                IF k = K0315 THEN AppText ELSE AppObject]]}

(***************************************************************************)
(* f64 values are counted in tenths.  The inputs of the model are chosen   *)
(* so that every product and quotient the code forms is a whole number of  *)
(* tenths that f64 arithmetic yields exactly.                              *)
(***************************************************************************)
FMul(a, b) == (a * b) \div 10

FDiv(a, b) == (a * 10) \div b

Abs(v) == IF v < 0 THEN 0 - v ELSE v

Signed(v, text) == IF v < 0 THEN <<"-">> \o text ELSE text

\* format!("{}", x) for an f64: a whole number is written without a fraction
FormatF64(v) ==
    Signed(v, IF Abs(v) % 10 = 0 THEN NatToString(Abs(v) \div 10)
              ELSE NatToString(Abs(v) \div 10) \o <<".", Digits[(Abs(v) % 10) + 1]>>)

\* format!("{:.1}", x)
FormatF64Prec1(v) ==
    Signed(v, NatToString(Abs(v) \div 10) \o <<".", Digits[(Abs(v) % 10) + 1]>>)

\* format!("{:.0}", x): the nearest whole number, a tie going to the even one
FormatF64Prec0(v) ==
    LET whole == Abs(v) \div 10
        frac == Abs(v) % 10
    IN  Signed(v, NatToString(IF frac > 5 \/ (frac = 5 /\ whole % 2 = 1)
                              THEN whole + 1 ELSE whole))

\* Literals of the entries the client writes
TxtQuickAdd == <<"Q", "u", "i", "c", "k", " ", "A", "d", "d">>
TxtServing == <<"s", "e", "r", "v", "i", "n", "g">>
Txt100 == <<"1", "0", "0", ".", "0">>
Txt1 == <<"1", ".", "0">>
Txt13 == <<"1", "3">>

\* A DateTime<Local>: its local date, hour and minute, and timestamp_millis().
\* The instants are written small; ts * 1000 + 10 cannot leave i64 for any
\* instant chrono can hold.
LoggedAtPool ==
    {[date |-> Date(2024, 3, 15), hour |-> 8, minute |-> 5, ts |-> 1700],
     [date |-> Date(2023, 2, 28), hour |-> 12, minute |-> 0, ts |-> 900]}

\* client.rs:401-402, 427: format!("{}", ts * 1000)
EntryId(logged_at) == IntToString(logged_at.ts * 1000)

QuickAddKeys ==
    {"t", "b", "c", "p", "e", "f", "w", "g", "q", "y", "s", "u", "h", "mi", "k", "id",
     "ca", "ua", "ef", "d", "x", "m"}

\* client.rs:425-455: the entry log_food stores
QuickAddEntry(logged_at, name, calories, protein, carbs, fat) ==
    JObj([k \in QuickAddKeys |->
        CASE k = "t" -> JStr(name)
          [] k = "b" -> JStr(TxtQuickAdd)
          [] k = "c" -> JStr(FormatF64Prec1(calories))
          [] k = "p" -> JStr(FormatF64Prec1(protein))
          [] k = "e" -> JStr(FormatF64Prec1(carbs))
          [] k = "f" -> JStr(FormatF64Prec1(fat))
          [] k \in {"w", "g"} -> JStr(Txt100)
          [] k \in {"q", "y"} -> JStr(Txt1)
          [] k \in {"s", "u"} -> JStr(TxtServing)
          [] k = "h" -> JStr(NatToString(logged_at.hour))
          [] k = "mi" -> JStr(NatToString(logged_at.minute))
          [] k = "k" -> JStr(<<"n">>)
          [] k = "id" -> JStr(IntToString(logged_at.ts * 1000 + 10))
          [] k = "ca" -> JStr(IntToString(logged_at.ts * 1000))
          [] k = "ua" -> JStr(IntToString(logged_at.ts * 1000 + 1))
          [] k \in {"ef", "d"} -> JBool(FALSE)
          [] k = "x" -> JStr(Txt13)
          [] OTHER -> JArr(<<JObj([j \in {"m", "q", "w"} |->
                                CASE j = "m" -> JStr(TxtServing)
                                  [] j = "q" -> JStr(Txt1)
                                  [] OTHER -> JStr(Txt100)])>>)])

\* The four macro codes, and the codes sync_day writes (client.rs:771-777)
MacroCodes == {"203", "204", "205", "208"}

AllCodes ==
    {"209", "221", "255", "262", "269", "291", "301", "303", "304", "305", "306", "307",
     "309", "312", "315", "317", "320", "323", "328", "401", "404", "405", "406", "410",
     "415", "417", "418", "421", "430", "501", "502", "503", "504", "505", "506", "507",
     "508", "509", "510", "512", "539", "601", "606", "621", "629", "645", "646", "693",
     "851", "901", "902"}

\* A nutrient code of the food database that is not among the codes above.
OtherCodes == {"573"}

\* field.chars().all(|c| c.is_ascii_digit()) over the keys an entry of the
\* model can have: the nutrient codes are its only keys made of digits.
IsDigitKey(k) == k \in MacroCodes \cup AllCodes \cup OtherCodes

\* FoodServing: description, amount, gram_weight
ServingCup == [description |-> <<"c", "u", "p">>, amount |-> 20, gram_weight |-> 1500]
ServingG == [description |-> <<"g">>, amount |-> 1000, gram_weight |-> 1000]

\* SearchFoodResult
FoodPool ==
    {[food_id |-> <<"u", "c", "_", "5">>, name |-> <<"o", "a", "t", "s">>,
      brand |-> None, calories_per_100g |-> 1650, protein_per_100g |-> 310,
      carbs_per_100g |-> 0, fat_per_100g |-> 40,
      servings |-> <<ServingG, ServingCup>>, image_id |-> None,
      nutrients_per_100g |-> [c \in {"208", "301", "573"} |->
                                 CASE c = "208" -> 1650 [] c = "301" -> 120 [] OTHER -> 20]]}

ServingPool == {ServingG, ServingCup}

QuantityPool == {10, 20}

SearchedKeys == QuickAddKeys \cup {"o", "fav"}

\* client.rs:638-648: the list of measurements
RECURSIVE Measurements(_)
Measurements(servings) ==
    IF servings = <<>> THEN <<>>
    ELSE <<JObj([j \in {"m", "q", "w"} |->
              CASE j = "m" -> JStr(Head(servings).description)
                [] j = "q" -> JStr(FormatF64Prec1(Head(servings).amount))
                [] OTHER -> JStr(FormatF64(Head(servings).gram_weight))])>>
         \o Measurements(Tail(servings))

\* client.rs:622-686: the entry log_searched_food stores
SearchedEntry(logged_at, food, serving, quantity) ==
    LET serving_grams == serving.gram_weight
        scale == FDiv(serving_grams, 1000)
        unit_weight == FDiv(serving.gram_weight, serving.amount)
        total_units == FMul(quantity, serving.amount)
        copied == DOMAIN food.nutrients_per_100g \ MacroCodes
    IN  JObj([k \in SearchedKeys \cup copied |->
            CASE k \in copied -> JStr(FormatF64(FMul(food.nutrients_per_100g[k], scale)))
              [] k = "t" -> JStr(food.name)
              [] k = "b" -> JStr(IF food.brand.some THEN food.brand.v ELSE <<>>)
              [] k = "c" -> JStr(FormatF64(FMul(food.calories_per_100g, scale)))
              [] k = "p" -> JStr(FormatF64(FMul(food.protein_per_100g, scale)))
              [] k = "e" -> JStr(FormatF64(FMul(food.carbs_per_100g, scale)))
              [] k = "f" -> JStr(FormatF64(FMul(food.fat_per_100g, scale)))
              [] k = "g" -> JStr(FormatF64(serving_grams))
              [] k = "w" -> JStr(FormatF64(unit_weight))
              [] k = "y" -> JStr(FormatF64(total_units))
              [] k = "q" -> JStr(FormatF64(serving.amount))
              [] k \in {"s", "u"} -> JStr(serving.description)
              [] k = "h" -> JStr(NatToString(logged_at.hour))
              [] k = "mi" -> JStr(NatToString(logged_at.minute))
              [] k = "k" -> JStr(<<"t">>)
              [] k = "id" -> JStr(food.food_id)
              [] k = "ca" -> JStr(IntToString(logged_at.ts * 1000))
              [] k = "ua" -> JStr(IntToString(logged_at.ts * 1000 + 1))
              [] k \in {"ef", "d", "o", "fav"} -> JBool(FALSE)
              [] k = "x" -> JStr(IF food.image_id.some THEN food.image_id.v ELSE Txt13)
              [] OTHER -> JArr(Measurements(food.servings))])

(***************************************************************************)
(* The store the client starts with, and the masked writes.                *)
(***************************************************************************)
\* Entries the app has logged on 2024-03-15: two live, one of them with a
\* serving of 0 g, one flagged as deleted, and a member under a metadata key
\* that has the fields of an entry.
AppEntry(hour, deleted, grams) ==
    JObj([k \in {"t", "c", "p", "e", "f", "g", "y", "w", "h", "mi", "d", "301", "573"} |->
        CASE k = "t" -> JStr(<<"e", "g", "g">>)
          [] k = "c" -> JStr(<<"8", "0", ".", "0">>)
          [] k = "p" -> Float(65)
          [] k = "e" -> JStr(<<"0", ".", "5">>)
          [] k = "f" -> JStr(<<"5", ".", "0">>)
          [] k = "g" -> JStr(grams)
          [] k = "w" -> JStr(<<"5", "0", ".", "0">>)
          [] k = "y" -> JStr(<<"2", ".", "0">>)
          [] k = "h" -> JStr(hour)
          [] k = "mi" -> JStr(<<"3", "0">>)
          [] k = "d" -> JBool(deleted)
          [] k = "301" -> JStr(<<"2", "5", ".", "0">>)
          [] OTHER -> Float(10)])

Id1700000 == <<"1", "7", "0", "0", "0", "0", "0">>
Id1650000 == <<"1", "6", "5", "0", "0", "0", "0">>
Id1680000 == <<"1", "6", "8", "0", "0", "0", "0">>
Txt50 == <<"5", "0", ".", "0">>
Txt0 == <<"0", ".", "0">>

AppFoodBucket ==
    to_firestore_fields(JObj([k \in {Id1700000, Id1680000, Id1650000, KUpd} |->
        CASE k = Id1700000 -> AppEntry(<<"9">>, FALSE, Txt50)
          [] k = Id1680000 -> AppEntry(<<"1", "2">>, FALSE, Txt0)
          [] k = Id1650000 -> AppEntry(<<"7">>, TRUE, Txt50)
          [] OTHER -> AppEntry(<<"8">>, FALSE, Txt50)]))

\* Entries the app has logged on 2023-02-28: two at 9:30, one at 12:05, and
\* one whose hour is no number and whose minute is missing.
IdA == <<"1", "1", "0", "0">>
IdB == <<"1", "2", "0", "0">>
IdC == <<"1", "3", "0", "0">>
IdD == <<"1", "4", "0", "0">>

TimedEntry(hour, minute) ==
    JObj([k \in {"t", "h"} \cup (IF minute.some THEN {"mi"} ELSE {}) |->
        CASE k = "t" -> JStr(<<"t", "e", "a">>)
          [] k = "h" -> JStr(hour)
          [] OTHER -> JStr(minute.v)])

OtherFoodBucket ==
    to_firestore_fields(JObj([k \in {IdA, IdB, IdC, IdD} |->
        CASE k = IdB -> TimedEntry(<<"1", "2">>, Some(<<"5">>))
          [] k = IdD -> TimedEntry(<<"x", "9">>, None)
          [] OTHER -> TimedEntry(<<"9">>, Some(<<"3", "0">>))]))

\* The store with the year buckets of `layout` in every year collection and,
\* with `food`, the day buckets of 2024-03-15 and 2023-02-28 and an earlier
\* summary.
StoreOf(layout, food) ==
    LET yearPaths == {Path(c, IntToString(y)) : c \in YearCollections,
                                               y \in {x \in Years : layout[x] # EmptyMap}}
        foodPath == Path("food", FormatYmd(Date(2024, 3, 15)))
        microPath == Path("micro", IntToString(2024))
        otherPath == Path("food", FormatYmd(Date(2023, 2, 28)))
        extra == IF food THEN {foodPath, otherPath, microPath} ELSE {}
    IN  [q \in yearPaths \cup extra |->
            IF q = foodPath THEN Doc(AppFoodBucket)
            ELSE IF q = otherPath THEN Doc(OtherFoodBucket)
            ELSE IF q = microPath THEN Doc([k \in {K0229} |-> AppObject])
            ELSE Doc(layout[CHOOSE y \in Years : q[4] = IntToString(y)])]

StorePool == {NoStore} \cup {StoreOf(l, TRUE) : l \in YearLayouts}

InitClient ==
    /\ AuthInit
    /\ codec = CodecIdle
    /\ store \in StorePool
    /\ nops = 0
    /\ op = ClientIdle
    /\ food_entry = EntryIdle
    /\ lister = ListIdle

\* How a patch request can end: done; no token for it (get_id_token failed, so
\* nothing is sent); refused by the store or lost on the way to it.
WriteOutcomes == {"ok", "auth", "refused"}

\* firestore.rs:210-241, patch_document, as the last step of an operation: the
\* request is sent with a token and the store applies it, unless one of the
\* two fails.  A store that cannot parse a mask path refuses the request.
\* `st` is the store the request reaches.
PatchDocument(st, name, args, req) ==
    /\ nops < MaxOps
    /\ \E out \in WriteOutcomes :
         LET sent == out # "auth"
             ok == out = "ok" /\ MaskOk(req.mask)
         IN  /\ store' = IF ok THEN Patched(st, req) ELSE st
             /\ op' = [name |-> name, args |-> args,
                       patches |-> IF sent THEN <<req>> ELSE <<>>,
                       result |-> [ok |-> ok]]
    /\ nops' = nops + 1
    /\ UNCHANGED <<authVars, codecVars, entryVars, listVars>>

\* A variant that leaves the key unquoted.
QuotedBare(key) == key

\* client.rs:405, 486, 504, 542, 701, 799: format!("`{}`", key)
Quoted(key) == <<Backtick>> \o key \o <<Backtick>>

\* client.rs:396-411.  `given` is what the caller has passed besides the
\* instant; it is kept with the operation.
WriteFoodEntry(st, name, logged_at, given, entry) ==
    PatchDocument(st, name,
        [date |-> logged_at.date, key |-> EntryId(logged_at), given |-> given],
        [path |-> Path("food", FormatYmd(logged_at.date)),
         fields |-> to_firestore_fields(Obj1(EntryId(logged_at), entry)),
         mask |-> <<Quoted(EntryId(logged_at))>>])

\* name, calories, protein, carbs, fat of a quick add
QuickAddPool ==
    {[name |-> <<"r", "i", "c", "e">>, calories |-> 1650, protein |-> 310, carbs |-> 0,
      fat |-> 36]}

\* client.rs:416-458
LogFood ==
    \E logged_at \in LoggedAtPool, q \in QuickAddPool :
        WriteFoodEntry(store, "log_food", logged_at, q,
            QuickAddEntry(logged_at, q.name, q.calories, q.protein, q.carbs, q.fat))

\* client.rs:615-689
LogSearchedFood ==
    \E logged_at \in LoggedAtPool, food \in FoodPool, serving \in ServingPool,
       quantity \in QuantityPool :
        WriteFoodEntry(store, "log_searched_food", logged_at,
            [food |-> food, serving |-> serving, quantity |-> quantity],
            SearchedEntry(logged_at, food, serving, quantity))

\* Weights and body-fat percentages, in tenths
WeightPool == {<<705, None>>, <<820, Some(182)>>}

\* client.rs:473-482: the entry log_weight stores
WeightEntry(weight_kg, body_fat) ==
    JObj([k \in {"w", "s", "do", "f"} |->
        CASE k = "w" -> Float(weight_kg)
          [] k = "s" -> JStr(<<"m">>)
          [] k = "do" -> JNull
          [] OTHER -> IF body_fat.some THEN Float(body_fat.v) ELSE JNull])

\* client.rs:462-492
LogWeight ==
    \E date \in DatePool, w \in WeightPool :
        PatchDocument(store, "log_weight",
            [date |-> date, key |-> FormatMmdd(date), given |-> w],
            [path |-> Path("scale", FormatYear(date)),
             fields |-> to_firestore_fields(Obj1(FormatMmdd(date), WeightEntry(w[1], w[2]))),
             mask |-> <<Quoted(FormatMmdd(date))>>])

\* A variant that flags the entry as deleted instead of removing it.
DeleteRequestFlag(coll, bucket, key) ==
    [path |-> Path(coll, bucket),
     fields |-> to_firestore_fields(Obj1(key, Obj1("d", JBool(TRUE)))),
     mask |-> <<Quoted(key)>>]

\* A variant that sends no mask at all.
DeleteRequestNoMask(coll, bucket, key) ==
    [path |-> Path(coll, bucket), fields |-> EmptyMap, mask |-> <<>>]

\* client.rs:499-506, 696-703: an empty field map, and the key alone in the mask
DeleteRequest(coll, bucket, key) ==
    [path |-> Path(coll, bucket), fields |-> EmptyMap, mask |-> <<Quoted(key)>>]

\* client.rs:497-510
DeleteWeightEntry ==
    \E date \in DatePool :
        PatchDocument(store, "delete_weight_entry",
            [date |-> date, key |-> FormatMmdd(date)],
            DeleteRequest("scale", FormatYear(date), FormatMmdd(date)))

\* calories and the three optional macros of log_nutrition
NutritionPool ==
    {[calories |-> 21004, protein |-> None, carbs |-> None, fat |-> None],
     [calories |-> 18006, protein |-> Some(1504), carbs |-> Some(2000), fat |-> Some(608)]}

\* client.rs:533-535: map(|v| format!("{:.0}", v)).unwrap_or_default()
FormatOpt0(x) == IF x.some THEN FormatF64Prec0(x.v) ELSE <<>>

\* client.rs:531-538: the entry log_nutrition stores
NutritionEntry(n) ==
    JObj([k \in {"k", "p", "c", "f", "s", "do"} |->
        CASE k = "k" -> JStr(FormatF64Prec0(n.calories))
          [] k = "p" -> JStr(FormatOpt0(n.protein))
          [] k = "c" -> JStr(FormatOpt0(n.carbs))
          [] k = "f" -> JStr(FormatOpt0(n.fat))
          [] k = "s" -> JStr(<<"m">>)
          [] OTHER -> JNull])

\* client.rs:518-548
LogNutrition ==
    \E date \in DatePool, n \in NutritionPool :
        PatchDocument(store, "log_nutrition",
            [date |-> date, key |-> FormatMmdd(date)],
            [path |-> Path("nutrition", FormatYear(date)),
             fields |-> to_firestore_fields(Obj1(FormatMmdd(date), NutritionEntry(n))),
             mask |-> <<Quoted(FormatMmdd(date))>>])

\* The entry ids handed to delete_food_entry: one of a stored entry, one of none.
EntryIdPool == {Id1700000, <<"4", "2">>}

\* client.rs:694-707
DeleteFoodEntry ==
    \E date \in DatePool, entry_id \in EntryIdPool :
        PatchDocument(store, "delete_food_entry",
            [date |-> date, key |-> entry_id],
            DeleteRequest("food", FormatYmd(date), entry_id))

(***************************************************************************)
(* Reading: get_document and the three range reads.                        *)
(***************************************************************************)
\* What can go wrong with a fetch besides the document being absent: no token
\* for it; a status other than 404, whose error text may all the same hold
\* the characters 404 (in the user id or in the body); no usable answer.
FetchFaults == {"auth", "status", "status_text_404", "transport"}

\* firestore.rs:64-82, get_document.  `fault` is "none" or what goes wrong.
\* The store leaves `fields` out of a document that has none.
GetDocument(st, path, fault) ==
    IF fault # "none" THEN [ok |-> FALSE, err |-> fault, path |-> path]
    ELSE IF ~At(st, path).exists THEN [ok |-> FALSE, err |-> "404", path |-> path]
    ELSE [ok |-> TRUE, err |-> "none", path |-> path,
          fields |-> IF At(st, path).fields = EmptyMap THEN None
                     ELSE [some |-> TRUE, map |-> At(st, path).fields]]

\* The sequences that list every element of S once.
RECURSIVE Orderings(_)
Orderings(S) ==
    IF S = {} THEN {<<>>}
    ELSE UNION {{<<x>> \o rest : rest \in Orderings(S \ {x})} : x \in S}

\* Any one sequence that lists every element of S once.  The sums of the
\* model are exact, so the order of the entries does not change them.
AnyOrder(S) == CHOOSE order \in Orderings(S) : TRUE

\* The orders in which the keys of a map are met: one order and its reverse.
KeyOrders(S) ==
    LET order == AnyOrder(S)
    IN  {order, [i \in 1..Len(order) |-> order[Len(order) + 1 - i]]}

\* The elements of the sequence `order` that lie in S, in that order.
RECURSIVE Restrict(_, _)
Restrict(order, S) ==
    IF order = <<>> THEN <<>>
    ELSE IF Head(order) \in S THEN <<Head(order)>> \o Restrict(Tail(order), S)
         ELSE Restrict(Tail(order), S)

\* Value::as_f64 and Value::as_str as Options
AsF64Opt(v) == IF v.t = "Num" THEN Some(AsF64(v)) ELSE None
AsStrOpt(v) == IF v.t = "Str" THEN Some(v.s) ELSE None

\* str::parse::<f64>().ok(), in tenths, for decimal strings with at most one
\* digit after the point; no exponent, infinity or NaN occurs in the model.
ParseF64Opt(s) ==
    LET neg == s # <<>> /\ Head(s) = "-"
        body == IF s # <<>> /\ Head(s) \in {"-", "+"} THEN Tail(s) ELSE s
        dots == {i \in 1..Len(body) : body[i] = "."}
        dot == IF dots = {} THEN Len(body) + 1 ELSE CHOOSE i \in dots : TRUE
        whole == SubSeq(body, 1, dot - 1)
        frac == SubSeq(body, dot + 1, Len(body))
        tenths == DigitsValue(whole, 0, 99999) * 10
                    + (IF frac = <<>> THEN 0 ELSE DigitVal(Head(frac)))
    IN  IF \/ Cardinality(dots) > 1
           \/ ~AllDigits(whole) \/ ~AllDigits(frac)
           \/ (whole = <<>> /\ frac = <<>>)
           \/ Len(frac) > 1
        THEN None
        ELSE Some(IF neg THEN 0 - tenths ELSE tenths)

\* client.rs:177-182: v.as_f64().or_else(|| v.as_str().and_then(|s| s.parse().ok()))
ParseNum(obj, k) ==
    IF ~Has(obj, k) THEN None
    ELSE IF obj.o[k].t = "Num" THEN Some(AsF64(obj.o[k]))
    ELSE IF obj.o[k].t = "Str" THEN ParseF64Opt(obj.o[k].s)
    ELSE None

ParseStr(obj, k) == IF Has(obj, k) THEN AsStrOpt(obj.o[k]) ELSE None

\* client.rs:121-132
ScaleEntry(date, obj) ==
    [date |-> date,
     weight |-> IF Has(obj, "w") /\ obj.o["w"].t = "Num" THEN AsF64(obj.o["w"]) ELSE 0,
     body_fat |-> IF Has(obj, "f") THEN AsF64Opt(obj.o["f"]) ELSE None,
     source |-> ParseStr(obj, "s")]

\* client.rs:184-196
NutritionSummary(date, obj) ==
    [date |-> date, calories |-> ParseNum(obj, "k"), protein |-> ParseNum(obj, "p"),
     carbs |-> ParseNum(obj, "c"), fat |-> ParseNum(obj, "f"),
     sugar |-> ParseNum(obj, "269"), fiber |-> ParseNum(obj, "291"),
     source |-> ParseStr(obj, "s")]

\* str::parse::<u64>: an optional plus sign, then at least one digit and nothing
\* else; a value above u64::MAX is an error.
ParseU64(s) ==
    LET body == IF s # <<>> /\ Head(s) = "+" THEN Tail(s) ELSE s
    IN  IF body = <<>> \/ ~AllDigits(body) \/ DigitsValue(body, 0, U64Max) > U64Max
        THEN ParseFail
        ELSE [ok |-> TRUE, v |-> DigitsValue(body, 0, U64Max)]

\* client.rs:323-337: as_u64, or a string that parses as u64, or 0
StepEntry(date, obj) ==
    [date |-> date,
     steps |-> IF ~Has(obj, "st") THEN 0
               ELSE IF obj.o["st"].t = "Num" /\ obj.o["st"].n = "PosInt" THEN obj.o["st"].v
               ELSE IF obj.o["st"].t = "Str" /\ ParseU64(obj.o["st"].s).ok
                    THEN ParseU64(obj.o["st"].s).v
               ELSE 0,
     source |-> ParseStr(obj, "s")]

RecordOf(coll, date, obj) ==
    CASE coll = "scale" -> ScaleEntry(date, obj)
      [] coll = "nutrition" -> NutritionSummary(date, obj)
      [] OTHER -> StepEntry(date, obj)

\* client.rs:112-135 (168-199, 315-340): what one key of a year bucket adds to
\* the entries.
KeyEntries(coll, year, key, val, start, end) ==
    IF IsMetadataKey(key) THEN <<>>
    ELSE LET kd == KeyDate(year, key)
         IN  IF kd.some /\ DateLe(start, kd.date) /\ DateLe(kd.date, end) /\ val.t = "Obj"
             THEN <<RecordOf(coll, kd.date, val)>>
             ELSE <<>>

\* client.rs:111-136: the keys of one parsed bucket, in the order of the map
RECURSIVE BucketEntries(_, _, _, _, _, _)
BucketEntries(coll, year, keys, parsed, start, end) ==
    IF keys = <<>> THEN <<>>
    ELSE KeyEntries(coll, year, Head(keys), parsed[Head(keys)], start, end)
            \o BucketEntries(coll, year, Tail(keys), parsed, start, end)

\* The year whose fetch is hit by `fault`, if any.
FaultAt(faulty, fault, year) == IF year = faulty THEN fault ELSE "none"

\* client.rs:102-138: one turn of the loop over the years; a bucket that
\* cannot be fetched, for whatever reason, is skipped (105: Err(_) => continue).
YearEntries(coll, year, st, order, start, end, faulty, fault) ==
    LET got == GetDocument(st, Path(coll, IntToString(year)), FaultAt(faulty, fault, year))
    IN  IF ~got.ok \/ ~got.fields.some THEN <<>>
        ELSE BucketEntries(coll, year, Restrict(order, DOMAIN got.fields.map),
                           parse_firestore_fields(JObj(got.fields.map)).o, start, end)

\* client.rs:98-99: start.format("%Y").to_string().parse::<i32>()
YearOf(date) == ParseI64(FormatYear(date)).v

\* client.rs:101-139: for year in start_year..=end_year; the entries pushed and
\* the years whose bucket was asked for
RECURSIVE ScanYears(_, _, _, _, _, _, _, _, _)
ScanYears(coll, year, end_year, st, order, start, end, faulty, fault) ==
    IF year > end_year THEN [entries |-> <<>>, gets |-> <<>>]
    ELSE LET rest == ScanYears(coll, year + 1, end_year, st, order, start, end, faulty, fault)
         IN  [entries |-> YearEntries(coll, year, st, order, start, end, faulty, fault)
                             \o rest.entries,
              gets |-> <<year>> \o rest.gets]

\* A variant that returns the entries in the order they were pushed.
SortByDateSkipped(es) == es

\* sort_by_key(|e| e.date): a stable sort
RECURSIVE SortByDate(_)
SortByDate(es) ==
    IF es = <<>> THEN <<>>
    ELSE LET front == SortByDate(SubSeq(es, 1, Len(es) - 1))
             e == es[Len(es)]
             n == Cardinality({i \in 1..Len(front) : DateLe(front[i].date, e.date)})
         IN  SubSeq(front, 1, n) \o <<e>> \o SubSeq(front, n + 1, Len(front))

\* Every key of the buckets of a collection.
KeysOf(st, coll) ==
    UNION {DOMAIN At(st, Path(coll, IntToString(y))).fields : y \in Years}

\* The faults of a range read: none, or one kind at the bucket of one year.
RangeFaults ==
    {[at |-> 0, kind |-> "none"]} \cup {[at |-> 2024, kind |-> k] : k \in FetchFaults}

\* client.rs:89-143, 147-207, 297-348: get_weight_entries, get_nutrition and
\* get_steps differ in the collection and in the record they build.
RangeRead(name, coll) ==
    /\ nops < MaxOps
    /\ \E range \in RangePool, f \in RangeFaults, order \in KeyOrders(KeysOf(store, coll)) :
         LET start == range[1]
             end == range[2]
             scan == ScanYears(coll, YearOf(start), YearOf(end), store, order, start, end,
                               f.at, f.kind)
         IN  op' = [name |-> name,
                    args |-> [start |-> start, end |-> end, coll |-> coll, fault |-> f,
                              order |-> order],
                    patches |-> <<>>,
                    result |-> [ok |-> TRUE, entries |-> SortByDate(scan.entries),
                                gets |-> scan.gets]]
    /\ nops' = nops + 1
    /\ UNCHANGED <<store, authVars, codecVars, entryVars, listVars>>

GetWeightEntries == RangeRead("get_weight_entries", "scale")

GetNutrition == RangeRead("get_nutrition", "nutrition")

GetSteps == RangeRead("get_steps", "steps")

(***************************************************************************)
(* The food log of a day and its summary (get_food_log, sync_day).         *)
(***************************************************************************)
\* key.starts_with('_')
StartsWithUnderscore(key) == key # <<>> /\ Head(key) = "_"

\* obj.get("d").and_then(|v| v.as_bool())
ParseBool(obj, k) == IF Has(obj, k) /\ obj.o[k].t = "Bool" THEN Some(obj.o[k].b) ELSE None

\* client.rs:230-265
FoodEntry(date, key, obj) ==
    [date |-> date, entry_id |-> key,
     name |-> ParseStr(obj, "t"), brand |-> ParseStr(obj, "b"),
     calories_raw |-> ParseNum(obj, "c"), protein_raw |-> ParseNum(obj, "p"),
     carbs_raw |-> ParseNum(obj, "e"), fat_raw |-> ParseNum(obj, "f"),
     serving_grams |-> ParseNum(obj, "g"), user_qty |-> ParseNum(obj, "y"),
     unit_weight |-> ParseNum(obj, "w"), quantity |-> ParseNum(obj, "q"),
     serving_unit |-> ParseStr(obj, "s"), hour |-> ParseStr(obj, "h"),
     minute |-> ParseStr(obj, "mi"), source_type |-> ParseStr(obj, "k"),
     food_id |-> ParseStr(obj, "id"), deleted |-> ParseBool(obj, "d")]

\* The multiplier without the weight of a unit: user_qty / serving_grams.
multiplierWithoutUnitWeight(e) ==
    IF e.serving_grams.some /\ e.user_qty.some /\ e.unit_weight.some /\ e.serving_grams.v > 0
    THEN Some(FDiv(e.user_qty.v, e.serving_grams.v))
    ELSE None

\* models.rs:126-131
multiplier(e) ==
    IF e.serving_grams.some /\ e.user_qty.some /\ e.unit_weight.some /\ e.serving_grams.v > 0
    THEN Some(FDiv(FMul(e.user_qty.v, e.unit_weight.v), e.serving_grams.v))
    ELSE None

\* An accessor that hands out the raw value whatever the multiplier is.
ScaledNever(raw, m) == raw

\* models.rs:134-163: the raw value times the multiplier, or the raw value
Scaled(raw, m) == IF raw.some /\ m.some THEN Some(FMul(raw.v, m.v)) ELSE raw

calories(e) == Scaled(e.calories_raw, multiplier(e))
protein(e) == Scaled(e.protein_raw, multiplier(e))
carbs(e) == Scaled(e.carbs_raw, multiplier(e))
fat(e) == Scaled(e.fat_raw, multiplier(e))

\* The entries the methods are tried on: serving_grams absent, zero, negative
\* or positive, each of user_qty and unit_weight absent or present, the raw
\* calories and protein absent or present.
GramsPool == {None, Some(0), Some(-500), Some(500), Some(1000)}
QtyPool == {None, Some(10), Some(20)}
UnitWeightPool == {None, Some(500), Some(1000)}

EntryPool ==
    {[date |-> Date(2024, 3, 15), entry_id |-> Id1700000,
      name |-> Some(<<"e", "g", "g">>), brand |-> None,
      calories_raw |-> c, protein_raw |-> p, carbs_raw |-> Some(5), fat_raw |-> Some(50),
      serving_grams |-> g, user_qty |-> y, unit_weight |-> w, quantity |-> None,
      serving_unit |-> None, hour |-> Some(<<"9">>), minute |-> None,
      source_type |-> None, food_id |-> None, deleted |-> None] :
        g \in GramsPool, y \in QtyPool, w \in UnitWeightPool,
        c \in {None, Some(800)}, p \in {None, Some(65)}}

InitEntry ==
    /\ AuthInit
    /\ codec = CodecIdle
    /\ ClientOff
    /\ food_entry \in {[call |-> "new", e |-> e, out |-> None] : e \in EntryPool}
    /\ lister = ListIdle

\* One method is called on the entry; it takes &self.
Called(method, out) ==
    /\ food_entry.call = "new"
    /\ food_entry' = [food_entry EXCEPT !.call = method, !.out = out]
    /\ UNCHANGED <<authVars, codecVars, clientVars, listVars>>

Multiplier == Called("multiplier", multiplier(food_entry.e))

Calories == Called("calories", calories(food_entry.e))

Protein == Called("protein", protein(food_entry.e))

Carbs == Called("carbs", carbs(food_entry.e))

Fat == Called("fat", fat(food_entry.e))

EntryNext == Multiplier \/ Calories \/ Protein \/ Carbs \/ Fat

SpecEntry == InitEntry /\ [][EntryNext]_vars

\* client.rs:226-267: the entries of the parsed bucket, in the order of the map
RECURSIVE FoodEntries(_, _, _)
FoodEntries(date, keys, parsed) ==
    IF keys = <<>> THEN <<>>
    ELSE (IF ~StartsWithUnderscore(Head(keys)) /\ parsed[Head(keys)].t = "Obj"
          THEN <<FoodEntry(date, Head(keys), parsed[Head(keys)])>>
          ELSE <<>>) \o FoodEntries(date, Tail(keys), parsed)

\* client.rs:273-280: (hour, minute), a missing or unparsable part counting as 0
TimeOf(e) ==
    <<ParseU32Or0(IF e.hour.some THEN e.hour.v ELSE <<"0">>),
      ParseU32Or0(IF e.minute.some THEN e.minute.v ELSE <<"0">>)>>

\* A variant that puts an entry before those of the same time.
TimeLt(a, b) == a[1] < b[1] \/ (a[1] = b[1] /\ a[2] < b[2])

TimeLe(a, b) == a[1] < b[1] \/ (a[1] = b[1] /\ a[2] <= b[2])

\* client.rs:272-290: sort_by, a stable sort
RECURSIVE SortByTime(_)
SortByTime(es) ==
    IF es = <<>> THEN <<>>
    ELSE LET front == SortByTime(SubSeq(es, 1, Len(es) - 1))
             e == es[Len(es)]
             n == Cardinality({i \in 1..Len(front) : TimeLe(TimeOf(front[i]), TimeOf(e))})
         IN  SubSeq(front, 1, n) \o <<e>> \o SubSeq(front, n + 1, Len(front))

\* client.rs:218: e.to_string().contains("404")
Contains404(err) == err \in {"404", "status_text_404"}

FoodPath(date) == Path("food", FormatYmd(date))

\* client.rs:211-293, on the store `st`
get_food_log(st, date, fault, order) ==
    LET got == GetDocument(st, FoodPath(date), fault)
    IN  IF ~got.ok
        THEN IF Contains404(got.err) THEN [ok |-> TRUE, entries |-> <<>>]
             ELSE [ok |-> FALSE, entries |-> <<>>]
        ELSE IF ~got.fields.some THEN [ok |-> TRUE, entries |-> <<>>]
        ELSE [ok |-> TRUE,
              entries |-> SortByTime(FoodEntries(date,
                              Restrict(order, DOMAIN got.fields.map),
                              parse_firestore_fields(JObj(got.fields.map)).o))]

FoodFaults == {"none", "status", "status_text_404"}

GetFoodLog ==
    /\ nops < MaxOps
    /\ \E date \in DatePool, fault \in FoodFaults :
       \E order \in KeyOrders(DOMAIN At(store, FoodPath(date)).fields) :
         op' = [name |-> "get_food_log",
                args |-> [date |-> date, fault |-> fault, order |-> order],
                patches |-> <<>>, result |-> get_food_log(store, date, fault, order)]
    /\ nops' = nops + 1
    /\ UNCHANGED <<store, authVars, codecVars, entryVars, listVars>>

\* firestore.rs:350-369, parse_document: the parsed fields, and the id and the
\* name of the document under two keys of its own
KId == <<"_", "i", "d">>
KPath == <<"_", "p", "a", "t", "h">>

parse_document(got) ==
    LET parsed == IF got.fields.some THEN parse_firestore_fields(JObj(got.fields.map)).o
                  ELSE EmptyMap
    IN  JObj([k \in {KId, KPath} \cup DOMAIN parsed |->
            IF k \in DOMAIN parsed THEN parsed[k]
            ELSE IF k = KId THEN JStr(got.path[4])
            ELSE JStr(got.path)])

\* client.rs:808-819
compute_multiplier(obj) ==
    LET g == ParseNum(obj, "g")
        y == ParseNum(obj, "y")
        w == ParseNum(obj, "w")
    IN  IF g.some /\ y.some /\ w.some /\ g.v > 0 THEN FDiv(FMul(y.v, w.v), g.v) ELSE 10

\* client.rs:740-747: the entries of the raw document that sync_day counts
IsLive(raw, key) ==
    /\ ~StartsWithUnderscore(key)
    /\ raw.o[key].t = "Obj"
    /\ ParseBool(raw.o[key], "d") # Some(TRUE)

\* client.rs:749-763: what one entry adds to the total of a code, if anything
Contribution(obj, code) ==
    IF IsDigitKey(code) /\ code \notin MacroCodes /\ ParseNum(obj, code).some
    THEN Some(FMul(ParseNum(obj, code).v, compute_multiplier(obj)))
    ELSE None

\* The sum of f over the elements of S.
RECURSIVE SumOver(_, _)
SumOver(S, f) ==
    IF S = {} THEN 0
    ELSE LET x == CHOOSE y \in S : TRUE
         IN  f[x] + SumOver(S \ {x}, f)

\* client.rs:737-768: code -> total, for the codes some entry contributes to
Micros(raw) ==
    LET live == {key \in DOMAIN raw.o : IsLive(raw, key)}
        codes == UNION {DOMAIN raw.o[key].o : key \in live}
        givers(code) == {key \in live : Contribution(raw.o[key], code).some}
    IN  [code \in {c \in codes : givers(c) # {}} |->
            SumOver(givers(code), [key \in givers(code) |-> Contribution(raw.o[key], code).v])]

\* What another client may do to the day bucket while sync_day runs: nothing,
\* or remove one entry of it.
Between(st, date) ==
    {st} \cup {Patched(st, DeleteRequest("food", FormatYmd(date), id)) :
                  id \in DOMAIN At(st, FoodPath(date)).fields \cap {Id1700000}}

\* client.rs:718-732: one macro total over the entries not flagged as deleted
RECURSIVE Total(_, _)
Total(entries, which) ==
    IF entries = <<>> THEN 0
    ELSE LET e == Head(entries)
             v == CASE which = "k" -> calories(e)
                    [] which = "p" -> protein(e)
                    [] which = "c" -> carbs(e)
                    [] OTHER -> fat(e)
         IN  (IF e.deleted = Some(TRUE) THEN 0 ELSE IF v.some THEN v.v ELSE 0)
                + Total(Tail(entries), which)

\* A summary that leaves out the codes no entry contributes to.
SummaryWithoutNulls(entries, micros) ==
    JObj([k \in {"k", "p", "c", "f"} \cup (AllCodes \cap DOMAIN micros) |->
        IF k \in {"k", "p", "c", "f"} THEN JStr(FormatF64(Total(entries, k)))
        ELSE JStr(FormatF64(micros[k]))])

\* client.rs:779-792: the summary of the day
Summary(entries, micros) ==
    JObj([k \in {"k", "p", "c", "f"} \cup AllCodes |->
        IF k \in {"k", "p", "c", "f"} THEN JStr(FormatF64(Total(entries, k)))
        ELSE IF k \in DOMAIN micros THEN JStr(FormatF64(micros[k]))
        ELSE JNull])

\* A request that writes the summary into the document of the user.
SyncRequestToUser(date, summary) ==
    [path |-> <<"users", UserId>>,
     fields |-> to_firestore_fields(Obj1(FormatMmdd(date), summary)),
     mask |-> <<Quoted(FormatMmdd(date))>>]

\* A request whose mask names the whole document instead of the day.
SyncRequestUnmasked(date, summary) ==
    [path |-> Path("micro", FormatYear(date)),
     fields |-> to_firestore_fields(Obj1(FormatMmdd(date), summary)),
     mask |-> <<>>]

\* client.rs:794-799: the request sync_day sends
SyncRequest(date, summary) ==
    [path |-> Path("micro", FormatYear(date)),
     fields |-> to_firestore_fields(Obj1(FormatMmdd(date), summary)),
     mask |-> <<Quoted(FormatMmdd(date))>>]

\* client.rs:714-805.  The day bucket is fetched twice (716, 737): `fault1`
\* and `fault2` are what goes wrong with each fetch, and `mid` is the store at
\* the second fetch; a call that returns at line 716 has no second fetch.
SyncDay ==
    /\ nops < MaxOps
    /\ \E date \in DatePool, fault1 \in FoodFaults, fault2 \in {"none", "status"} :
       \E mid \in Between(store, date) :
         LET log == get_food_log(store, date, fault1,
                                 AnyOrder(DOMAIN At(store, FoodPath(date)).fields))
             got == GetDocument(mid, FoodPath(date), fault2)
             micros == IF got.ok THEN Micros(parse_document(got)) ELSE EmptyMap
             req == SyncRequest(date, Summary(log.entries, micros))
             args == [date |-> date, key |-> FormatMmdd(date), fault1 |-> fault1,
                      fault2 |-> fault2, mid |-> IF log.ok THEN mid ELSE store]
         IN  IF ~log.ok
             THEN /\ store' = store
                  /\ op' = [name |-> "sync_day", args |-> args, patches |-> <<>>,
                            result |-> [ok |-> FALSE]]
             ELSE \E out \in WriteOutcomes :
                    LET ok == out = "ok" /\ MaskOk(req.mask)
                    IN  /\ store' = IF ok THEN Patched(mid, req) ELSE mid
                        /\ op' = [name |-> "sync_day", args |-> args,
                                  patches |-> IF out # "auth" THEN <<req>> ELSE <<>>,
                                  result |-> [ok |-> ok]]
    /\ nops' = nops + 1
    /\ UNCHANGED <<authVars, codecVars, entryVars, listVars>>

ClientNext ==
    \/ LogFood
    \/ LogSearchedFood
    \/ LogWeight
    \/ LogNutrition
    \/ DeleteWeightEntry
    \/ DeleteFoodEntry
    \/ SyncDay
    \/ GetWeightEntries
    \/ GetNutrition
    \/ GetSteps
    \/ GetFoodLog

SpecClient == InitClient /\ [][ClientNext]_vars

(***************************************************************************)
(* list_collection_ids (firestore.rs:122-172): the pages of collection ids *)
(* are asked for one after another.                                        *)
(***************************************************************************)
\* The call asks for at most MaxPages pages: the store hands out a page
\* without a next-token by then.
MaxPages == 3

\* ListCollectionIdsResponse: collection_ids and next_page_token, both optional
PageIds == {None, Some(<<>>), Some(<<"food">>), Some(<<"scale", "micro">>)}

PageTokens == {None, Some(""), Some("t1"), Some("t2")}

\* The pages the store may answer the n-th request with.
PageResponses(n) ==
    {[collection_ids |-> ids, next_page_token |-> next] :
        ids \in PageIds,
        next \in IF n < MaxPages THEN PageTokens ELSE {None, Some("")}}

InitList ==
    /\ AuthInit
    /\ codec = CodecIdle
    /\ ClientOff
    /\ food_entry = EntryIdle
    /\ lister = [pc |-> "token", page_token |-> None, all_ids |-> <<>>,
                 sent |-> <<>>, pages |-> <<>>, result |-> None]

\* firestore.rs:126: let token = self.auth.get_id_token().await?
ListToken ==
    /\ lister.pc = "token"
    /\ \E got \in BOOLEAN :
         lister' = IF got THEN [lister EXCEPT !.pc = "loop"]
                   ELSE [lister EXCEPT !.pc = "failed", !.result = Some([ok |-> FALSE])]
    /\ UNCHANGED <<authVars, codecVars, clientVars, entryVars>>

\* A loop that also goes on after an empty next-token.
ContinuesOnEmpty(next) == next.some

\* firestore.rs:163-166: Some(pt) if !pt.is_empty()
Continues(next) == next.some /\ next.v # ""

\* firestore.rs:136-166: one turn of the loop.  The request carries the page
\* token, if there is one; it fails (in transport, by its status, or in
\* decoding), or a page comes back.
RequestPage ==
    /\ lister.pc = "loop"
    /\ LET sent == Append(lister.sent, lister.page_token)
       IN  \/ lister' = [lister EXCEPT !.pc = "failed", !.sent = sent,
                                        !.result = Some([ok |-> FALSE])]
           \/ \E list_resp \in PageResponses(Len(sent)) :
                LET all_ids == lister.all_ids \o
                                  (IF list_resp.collection_ids.some
                                   THEN list_resp.collection_ids.v ELSE <<>>)
                    pages == Append(lister.pages, list_resp)
                IN  lister' =
                      IF Continues(list_resp.next_page_token)
                      THEN [lister EXCEPT !.sent = sent, !.pages = pages,
                                          !.all_ids = all_ids,
                                          !.page_token = list_resp.next_page_token]
                      ELSE [lister EXCEPT !.pc = "done", !.sent = sent, !.pages = pages,
                                          !.all_ids = all_ids,
                                          !.result = Some([ok |-> TRUE, ids |-> all_ids])]
    /\ UNCHANGED <<authVars, codecVars, clientVars, entryVars>>

ListNext == ListToken \/ RequestPage

\* The call is one async task that is polled to its end: a step that can be
\* taken is taken.
SpecList == InitList /\ [][ListNext]_vars /\ WF_vars(ListNext)

(***************************************************************************)
(* Claims about the client.                                                *)
(***************************************************************************)
DeleteOps == {"delete_weight_entry", "delete_food_entry"}

\* The document a delete operation is aimed at.
DeleteTarget(o) ==
    IF o.name = "delete_weight_entry" THEN Path("scale", IntToString(o.args.date.y))
    ELSE Path("food", FormatYmd(o.args.date))

\* The state before and after one delete operation.
C8_Step ==
    (nops' # nops /\ op'.name \in DeleteOps) =>
        LET o == op'
            key == o.args.key
            old == At(store, DeleteTarget(o)).fields
            new == At(store', DeleteTarget(o)).fields
        IN  /\ Len(o.patches) <= 1
            /\ \A i \in 1..Len(o.patches) :
                 /\ o.patches[i].path = DeleteTarget(o)
                 /\ o.patches[i].fields = EmptyMap
                 /\ o.patches[i].mask = <<<<Backtick>> \o key \o <<Backtick>>>>
            /\ o.result.ok =>
                 /\ Len(o.patches) = 1
                 /\ key \notin DOMAIN new
                 /\ DOMAIN new = DOMAIN old \ {key}
                 /\ \A k \in DOMAIN new : new[k] = old[k]
                 /\ \A q \in (DOMAIN store \cup DOMAIN store') \ {DeleteTarget(o)} :
                      At(store', q) = At(store, q)
            /\ ~o.result.ok => store' = store

\* C8: delete_weight_entry and delete_food_entry each send at most one patch,
\* and exactly one when they succeed; the patch has an empty field map and a
\* mask of one path, the backtick-quoted target key; after a successful delete
\* the target key is absent from the document, every other key of the document
\* holds the value it had, and no other document has changed.
C8_MaskedDeleteRemovesOnlyTheKey == [][C8_Step]_vars

\* A successful delete_weight_entry of 03-15 has left 02-29 alone in a scale
\* bucket that held both.
C8_Witness ==
    /\ op.name = "delete_weight_entry"
    /\ op.result.ok
    /\ op.args.key = K0315
    /\ DOMAIN At(store, Path("scale", IntToString(2024))).fields = {K0229}

WriteOps ==
    {"log_food", "log_searched_food", "log_weight", "log_nutrition", "delete_weight_entry",
     "delete_food_entry", "sync_day"}

BacktickDelimited(fp) == Len(fp) >= 2 /\ fp[1] = Backtick /\ fp[Len(fp)] = Backtick

\* C9: every field path in the update mask of every patch a write operation
\* sends begins and ends with a backtick, and every such patch has a mask.
C9_MaskPathsAreBacktickDelimited ==
    op.name \in WriteOps =>
        \A i \in 1..Len(op.patches) :
            /\ op.patches[i].mask # <<>>
            /\ \A j \in 1..Len(op.patches[i].mask) : BacktickDelimited(op.patches[i].mask[j])

\* sync_day has sent a patch whose mask path quotes a key that begins with a digit.
C9_Witness ==
    /\ op.name = "sync_day"
    /\ Len(op.patches) = 1
    /\ Len(op.patches[1].mask) = 1
    /\ IsDigit(op.patches[1].mask[1][2])
    /\ op.result.ok

RangeReads == {"get_weight_entries", "get_nutrition", "get_steps"}

\* The days of the months of a common year.
C10_MonthDays == <<31, 28, 31, 30, 31, 30, 31, 31, 30, 31, 30, 31>>

\* A date of the calendar.
C10_RealDate(d) ==
    /\ d.m \in 1..12
    /\ d.d >= 1
    /\ d.d <= C10_MonthDays[d.m]
                + (IF d.m = 2 /\ d.y % 4 = 0 /\ (d.y % 100 # 0 \/ d.y % 400 = 0) THEN 1 ELSE 0)

\* The fields of the bucket of a year in the collection a range read scans.
C10_Bucket(o, y) == At(store, Path(o.args.coll, IntToString(y))).fields

\* The keys of four characters of the bucket are day codes of four digits.
C10_DayCodes(o, y) ==
    \A k \in DOMAIN C10_Bucket(o, y) : (Len(k) = 4 /\ Head(k) # "_") => AllDigits(k)

\* C10: a range read never fails over a key that is no real date and returns
\* no record for it: every record carries a real calendar date, whose day code
\* is a key of the bucket of its year when the bucket holds day codes only,
\* and no two records carry the same date; and the key "0229" of a leap
\* year's bucket, holding an object and lying in the range, does yield a
\* record.
C10_UnrealDayCodesAreDropped ==
    op.name \in RangeReads =>
        LET es == op.result.entries
            feb29 == Date(2024, 2, 29)
        IN  /\ op.args.fault.kind = "none" => op.result.ok
            /\ \A i \in 1..Len(es) :
                 /\ C10_RealDate(es[i].date)
                 /\ C10_DayCodes(op, es[i].date.y) =>
                        Pad2(es[i].date.m) \o Pad2(es[i].date.d)
                            \in DOMAIN C10_Bucket(op, es[i].date.y)
            /\ \A i, j \in 1..Len(es) : es[i].date = es[j].date => i = j
            /\ (/\ op.args.fault.kind = "none"
                /\ K0229 \in DOMAIN C10_Bucket(op, 2024)
                /\ DateLe(op.args.start, feb29) /\ DateLe(feb29, op.args.end))
               => \E i \in 1..Len(es) : es[i].date = feb29

\* A read over 2023 and 2024 of buckets holding "0229" and "0230" for 2023 and
\* "0229" for 2024 has returned the record of 2024-02-29 alone.
C10_Witness ==
    /\ op.name = "get_weight_entries"
    /\ op.args.fault.kind = "none"
    /\ op.args.start = Date(2023, 2, 1)
    /\ {K0229, K0230} \subseteq DOMAIN C10_Bucket(op, 2023)
    /\ K0229 \in DOMAIN C10_Bucket(op, 2024)
    /\ op.result.ok
    /\ Len(op.result.entries) = 1
    /\ op.result.entries[1].date = Date(2024, 2, 29)

\* A key of exactly four decimal digits.
C11_FourDigits(key) == Len(key) = 4 /\ \A i \in 1..4 : key[i] \in {Digits[j] : j \in 1..10}

\* The records a read returned for the year y.
C11_RecordsOf(o, y) == {i \in 1..Len(o.result.entries) : o.result.entries[i].date.y = y}

\* C11: a range read returns a record only for a key of exactly four decimal
\* digits: the month and day of every record, written as MMDD, are a key of
\* the bucket of the record's year, and a year yields no more records than
\* its bucket has keys of four digits; keys that begin with an underscore or
\* are not four characters long yield nothing.
C11_OnlyFourDigitKeysYieldRecords ==
    op.name \in RangeReads =>
        /\ \A i \in 1..Len(op.result.entries) :
             LET d == op.result.entries[i].date
             IN  /\ Pad2(d.m) \o Pad2(d.d) \in DOMAIN C10_Bucket(op, d.y)
                 /\ C11_FourDigits(Pad2(d.m) \o Pad2(d.d))
        /\ \A y \in Years :
             Cardinality(C11_RecordsOf(op, y))
                 <= Cardinality({k \in DOMAIN C10_Bucket(op, y) : C11_FourDigits(k)})

\* With day codes only in the buckets, the same holds of every read.
C11_DayCodesYieldRecords ==
    (op.name \in RangeReads /\ \A y \in Years : C10_DayCodes(op, y)) =>
        C11_OnlyFourDigitKeysYieldRecords

\* The date a key of four digits of the bucket of year y stands for.
C12_DateOf(y, k) ==
    Date(y, DigitVal(k[1]) * 10 + DigitVal(k[2]), DigitVal(k[3]) * 10 + DigitVal(k[4]))

\* Days counted so that a later date has the larger number.
C12_Ordinal(d) == d.y * 10000 + d.m * 100 + d.d

\* The date lies in the range of the read, its two ends included.
C12_Within(o, d) ==
    C12_Ordinal(o.args.start) <= C12_Ordinal(d) /\ C12_Ordinal(d) <= C12_Ordinal(o.args.end)

\* The valid day codes of the bucket of year y that hold an object and lie in
\* the range of the read.
C12_Due(o, y) ==
    {k \in DOMAIN C10_Bucket(o, y) :
        /\ C11_FourDigits(k)
        /\ C10_RealDate(C12_DateOf(y, k))
        /\ "mapValue" \in DOMAIN C10_Bucket(o, y)[k].o
        /\ C12_Within(o, C12_DateOf(y, k))}

\* C12: a range read that meets no fetch failure succeeds, even when a bucket
\* is missing; it asks for the bucket of every year from start.year to
\* end.year, in that order, and for no other; it returns exactly one record
\* for every valid day code holding an object whose date lies in the range,
\* the two ends included; and every record it returns lies in the range and
\* in a year it asked for.
C12_ExactlyTheKeysInRange ==
    (op.name \in RangeReads /\ op.args.fault.kind = "none") =>
        LET es == op.result.entries
            first == op.args.start.y
            last == op.args.end.y
        IN  /\ op.result.ok
            /\ Len(op.result.gets) = (IF last >= first THEN last - first + 1 ELSE 0)
            /\ \A i \in 1..Len(op.result.gets) : op.result.gets[i] = first + i - 1
            /\ \A y \in first..last : \A k \in C12_Due(op, y) :
                 Cardinality({i \in 1..Len(es) : es[i].date = C12_DateOf(y, k)}) = 1
            /\ \A i \in 1..Len(es) :
                 /\ C12_Within(op, es[i].date)
                 /\ es[i].date.y \in first..last

\* A read from 2023-02-01 to 2024-02-29 has asked for both buckets, found none
\* for 2023, and returned the record of the last day of the range and none
\* for 03-15, which lies after it.
C12_Witness ==
    /\ op.name = "get_nutrition"
    /\ op.args.fault.kind = "none"
    /\ op.result.gets = <<2023, 2024>>
    /\ ~At(store, Path("nutrition", IntToString(2023))).exists
    /\ {K0229, K0315} \subseteq DOMAIN At(store, Path("nutrition", IntToString(2024))).fields
    /\ op.result.ok
    /\ Len(op.result.entries) = 1
    /\ op.result.entries[1].date = Date(2024, 2, 29)

\* C13: the records a range read returns are in non-decreasing order of date,
\* over all the years it scanned and whatever the order in which the keys of
\* the buckets came.
C13_SortedByDate ==
    op.name \in RangeReads =>
        \A i, j \in 1..Len(op.result.entries) :
            i < j => C12_Ordinal(op.result.entries[i].date)
                        <= C12_Ordinal(op.result.entries[j].date)

\* The position of x in the sequence `order`.
C13_Position(order, x) == CHOOSE i \in 1..Len(order) : order[i] = x

\* A read whose keys came with "0315" before "0229" has returned the record
\* of 2024-02-29 before that of 2024-03-15.
C13_Witness ==
    /\ op.name = "get_steps"
    /\ op.args.fault.kind = "none"
    /\ {K0229, K0315} \subseteq {op.args.order[i] : i \in 1..Len(op.args.order)}
    /\ C13_Position(op.args.order, K0315) < C13_Position(op.args.order, K0229)
    /\ Len(op.result.entries) = 2
    /\ op.result.entries[1].date = Date(2024, 2, 29)
    /\ op.result.entries[2].date = Date(2024, 3, 15)

\* The fetch of a bucket the read asks for has failed, and not with NotFound.
C14_FetchFailed(o) ==
    /\ o.args.fault.kind \in FetchFaults
    /\ \E i \in 1..Len(o.result.gets) : o.result.gets[i] = o.args.fault.at

\* C14: a range read skips a year only when its bucket is not found: it
\* succeeds when no fetch fails otherwise, and it returns an error when the
\* fetch of one of its buckets fails for want of a token, with a status other
\* than 404, or without a usable answer.
C14_OtherFailuresPropagate ==
    op.name \in RangeReads =>
        /\ op.args.fault.kind = "none" => op.result.ok
        /\ C14_FetchFailed(op) => ~op.result.ok

\* C15: get_food_log returns an empty list when the day's bucket is not found,
\* and returns an error when the fetch fails in any other way.
C15_FoodLogOnlyRecovers404 ==
    op.name = "get_food_log" =>
        /\ (op.args.fault = "none" /\ ~At(store, FoodPath(op.args.date)).exists) =>
               (op.result.ok /\ op.result.entries = <<>>)
        /\ op.args.fault # "none" => ~op.result.ok

(***************************************************************************)
(* Claims about FoodEntry.                                                 *)
(***************************************************************************)
Accessors == {"calories", "protein", "carbs", "fat"}

\* The raw field an accessor reads.
C16_Raw(e, method) ==
    CASE method = "calories" -> e.calories_raw
      [] method = "protein" -> e.protein_raw
      [] method = "carbs" -> e.carbs_raw
      [] OTHER -> e.fat_raw

\* (user_qty * unit_weight) / serving_grams
C16_Law(e) == FDiv(FMul(e.user_qty.v, e.unit_weight.v), e.serving_grams.v)

C16_GramsPositive(e) == e.serving_grams.some /\ e.serving_grams.v > 0

C16_Defined(e) == C16_GramsPositive(e) /\ e.user_qty.some /\ e.unit_weight.some

\* C16 as stated: multiplier() is defined whenever serving_grams is present
\* and above zero, with the value (user_qty * unit_weight) / serving_grams, and
\* is undefined when serving_grams is absent or at most zero.
C16_DefinedByServingGrams ==
    food_entry.call = "multiplier" =>
        /\ C16_GramsPositive(food_entry.e) =>
               /\ food_entry.out.some
               /\ C16_Defined(food_entry.e) => food_entry.out.v = C16_Law(food_entry.e)
        /\ ~C16_GramsPositive(food_entry.e) => ~food_entry.out.some

\* C16, amended: multiplier() is (user_qty * unit_weight) / serving_grams when
\* the three fields are present and serving_grams is above zero, and undefined
\* otherwise; calories(), protein(), carbs() and fat() return the raw value
\* times the multiplier when both are defined and the raw value as it is
\* otherwise; no method changes a field of the entry.
C16_MultiplierLaw ==
    /\ [](food_entry.call = "multiplier" =>
             food_entry.out = IF C16_Defined(food_entry.e)
                              THEN Some(C16_Law(food_entry.e)) ELSE None)
    /\ [](food_entry.call \in Accessors =>
             LET raw == C16_Raw(food_entry.e, food_entry.call)
             IN  food_entry.out = IF raw.some /\ C16_Defined(food_entry.e)
                                  THEN Some(FMul(raw.v, C16_Law(food_entry.e)))
                                  ELSE raw)
    /\ [][food_entry.call = "new" => food_entry'.e = food_entry.e]_vars

\* serving_grams 100, user_qty 1, unit_weight 100: the multiplier is 1.0
C16_Witness ==
    /\ food_entry.call = "multiplier"
    /\ food_entry.e.serving_grams = Some(1000)
    /\ food_entry.e.user_qty = Some(10)
    /\ food_entry.e.unit_weight = Some(1000)
    /\ food_entry.out = Some(10)

(***************************************************************************)
(* Claims about sync_day.                                                  *)
(***************************************************************************)
MacroKeys == {"k", "p", "c", "f"}

\* The summary sub-object of the request sync_day has sent.
C17_Written(o) == o.patches[1].fields[o.args.key].o["mapValue"].o["fields"].o

\* The entries of the day bucket of the store `st` that count: the members
\* that are objects, not metadata and not flagged as deleted.
C17_Parsed(st, date) == parse_firestore_fields(JObj(At(st, FoodPath(date)).fields)).o

C17_LiveKeys(st, date) ==
    LET parsed == C17_Parsed(st, date)
    IN  {x \in DOMAIN parsed :
            /\ ~(x # <<>> /\ Head(x) = "_")
            /\ parsed[x].t = "Obj"
            /\ ~(Has(parsed[x], "d") /\ parsed[x].o["d"] = JBool(TRUE))}

C17_LiveEntries(st, date) == {C17_Parsed(st, date)[x] : x \in C17_LiveKeys(st, date)}

\* The entries the second fetch of sync_day hands over.
C17_Fetched(o) ==
    IF o.args.fault2 = "none" THEN C17_LiveEntries(o.args.mid, o.args.date) ELSE {}

\* C17: every summary sync_day sends has the same keys, the codes of the
\* fixed list and k, p, c, f, and a code of the list that no counted entry
\* carries a number for is there with the null value.
C17_SameKeySet ==
    (op.name = "sync_day" /\ op.patches # <<>>) =>
        /\ DOMAIN op.patches[1].fields = {op.args.key}
        /\ DOMAIN C17_Written(op) = AllCodes \cup MacroKeys
        /\ \A k \in MacroKeys : DOMAIN C17_Written(op)[k].o = {"stringValue"}
        /\ \A code \in AllCodes :
              IF \E obj \in C17_Fetched(op) : ParseNum(obj, code).some
              THEN DOMAIN C17_Written(op)[code].o = {"stringValue"}
              ELSE C17_Written(op)[code] = Obj1("nullValue", JNull)

\* A summary of 2024-03-15 with a total for calcium (301) and none for 209.
C17_Witness ==
    /\ op.name = "sync_day"
    /\ op.result.ok
    /\ op.args.date = Date(2024, 3, 15)
    /\ Len(op.patches) = 1
    /\ Cardinality(DOMAIN C17_Written(op)) = Cardinality(AllCodes) + 4
    /\ DOMAIN C17_Written(op)["301"].o = {"stringValue"}
    /\ C17_Written(op)["209"] = Obj1("nullValue", JNull)

\* The raw field an accessor reads, by the key of the summary it is written to.
C18_RawKey(k) == CASE k = "k" -> "c" [] k = "p" -> "p" [] k = "c" -> "e" [] OTHER -> "f"

\* What one entry adds to a macro total: its value, times (y * w) / g when the
\* three are numbers and g is above zero; 0 when it has no value.
C18_Consumed(obj, k) ==
    LET raw == ParseNum(obj, C18_RawKey(k))
        g == ParseNum(obj, "g")
        y == ParseNum(obj, "y")
        w == ParseNum(obj, "w")
    IN  IF ~raw.some THEN 0
        ELSE IF g.some /\ y.some /\ w.some /\ g.v > 0
             THEN FMul(raw.v, FDiv(FMul(y.v, w.v), g.v))
             ELSE raw.v

\* The sum of the consumed amounts over the counted entries of the day bucket
\* of the store `st`.
C18_Sum(st, date, k) ==
    LET live == C17_LiveKeys(st, date)
    IN  SumOver(live, [x \in live |-> C18_Consumed(C17_Parsed(st, date)[x], k)])

C18_TotalsOf(st, o) ==
    \A k \in MacroKeys :
        C17_Written(o)[k] = to_firestore_value(JStr(FormatF64(C18_Sum(st, o.args.date, k))))

C18_Step == (nops' # nops /\ op'.name = "sync_day" /\ op'.patches # <<>>) => C18_TotalsOf(store, op')

\* C18: the four macro totals sync_day writes are the sums, over the entries
\* of the day bucket not flagged as deleted, of the consumed calories, protein,
\* carbs and fat, an absent value counting as 0; they are 0 when the day has no
\* bucket.  The bucket is the one in the store when sync_day begins.
C18_MacroTotalsAreTheSums == [][C18_Step]_vars

\* The same, for the calls whose fetch of the day bucket is answered.
C18_TotalsWhenFetched ==
    [][(nops' # nops /\ op'.name = "sync_day" /\ op'.patches # <<>>
            /\ op'.args.fault1 = "none") => C18_TotalsOf(store, op')]_vars

\* A call that is answered and finds the two live entries: 80.0 kcal per
\* serving of 50 g, two units of 50 g, so 160 kcal, and 80.0 kcal as they are
\* for the serving of 0 g; the entry flagged as deleted and the member under
\* the metadata key add nothing.
C18_Witness ==
    /\ op.name = "sync_day"
    /\ op.result.ok
    /\ op.args.fault1 = "none"
    /\ op.args.date = Date(2024, 3, 15)
    /\ C17_Written(op)["k"] = to_firestore_value(JStr(<<"2", "4", "0">>))
    /\ C17_Written(op)["p"] = to_firestore_value(JStr(<<"1", "9", ".", "5">>))

\* The live entries of the day bucket of `st` that carry a number for `code`.
C19_Carriers(st, date, code) ==
    {x \in C17_LiveKeys(st, date) : ParseNum(C17_Parsed(st, date)[x], code).some}

\* What one entry adds to the total of a code: its value, times (y * w) / g
\* when the three are numbers and g is above zero.
C19_Scaled(obj, code) ==
    LET g == ParseNum(obj, "g")
        y == ParseNum(obj, "y")
        w == ParseNum(obj, "w")
    IN  IF g.some /\ y.some /\ w.some /\ g.v > 0
        THEN FMul(ParseNum(obj, code).v, FDiv(FMul(y.v, w.v), g.v))
        ELSE ParseNum(obj, code).v

C19_Sum(st, date, code) ==
    LET carriers == C19_Carriers(st, date, code)
    IN  SumOver(carriers, [x \in carriers |-> C19_Scaled(C17_Parsed(st, date)[x], code)])

\* The written value of every code of the list that some live entry carries
\* is the sum over those entries.
C19_TotalsOf(o) ==
    \A code \in AllCodes :
        C19_Carriers(o.args.mid, o.args.date, code) # {} =>
            C17_Written(o)[code] =
                to_firestore_value(JStr(FormatF64(C19_Sum(o.args.mid, o.args.date, code))))

\* compute_multiplier scales an entry as the accessors of its FoodEntry do.
C19_SameScaling(o) ==
    \A x \in C17_LiveKeys(o.args.mid, o.args.date) :
        LET obj == C17_Parsed(o.args.mid, o.args.date)[x]
            m == multiplier(FoodEntry(o.args.date, x, obj))
        IN  /\ compute_multiplier(obj) = IF m.some THEN m.v ELSE 10
            /\ \A raw \in {Some(10), Some(250)} :
                  Scaled(raw, m) = Some(FMul(raw.v, compute_multiplier(obj)))

\* C19: for every micronutrient code of the fixed list that a live entry of
\* the day bucket carries, the value sync_day writes is the sum over those
\* entries of the entry's value times its own multiplier, (y * w) / g when g,
\* y and w are present and g is above zero and 1 otherwise.  The bucket is
\* the one in the store at the second fetch.
C19_MicroTotalsAreTheSums ==
    (op.name = "sync_day" /\ op.patches # <<>>) => C19_TotalsOf(op)

\* The same, for the calls whose second fetch of the day bucket is answered.
C19_TotalsWhenFetched ==
    (op.name = "sync_day" /\ op.patches # <<>> /\ op.args.fault2 = "none") =>
        (C19_TotalsOf(op) /\ C19_SameScaling(op))

\* An answered call that finds calcium in the two live entries: 25.0 times
\* 2.0, and 25.0 as it is for the serving of 0 g.
C19_Witness ==
    /\ op.name = "sync_day"
    /\ op.result.ok
    /\ op.args.fault2 = "none"
    /\ C19_Carriers(op.args.mid, op.args.date, "301") = {Id1700000, Id1680000}
    /\ C17_Written(op)["301"] = to_firestore_value(JStr(<<"7", "5">>))

\* The document sync_day writes to.
C20_MicroPath(o) == Path("micro", IntToString(o.args.date.y))

\* The state before and after one sync_day; `mid` is the store as the other
\* clients have left it by the time of the write.
C20_Step ==
    (nops' # nops /\ op'.name = "sync_day") =>
        LET o == op'
            mid == o.args.mid
            key == Pad2(o.args.date.m) \o Pad2(o.args.date.d)
            old == At(mid, C20_MicroPath(o)).fields
            new == At(store', C20_MicroPath(o)).fields
        IN  /\ Len(o.patches) <= 1
            /\ \A i \in 1..Len(o.patches) :
                 /\ o.patches[i].path = C20_MicroPath(o)
                 /\ o.patches[i].mask = <<<<Backtick>> \o key \o <<Backtick>>>>
                 /\ DOMAIN o.patches[i].fields = {key}
            /\ o.result.ok =>
                 /\ Len(o.patches) = 1
                 /\ DOMAIN new = DOMAIN old \cup {key}
                 /\ new[key] = o.patches[1].fields[key]
                 /\ \A k \in DOMAIN old \ {key} : new[k] = old[k]
                 /\ \A q \in (DOMAIN mid \cup DOMAIN store') \ {C20_MicroPath(o)} :
                      At(store', q) = At(mid, q)
            /\ ~o.result.ok => store' = mid

\* C20: sync_day sends at most one patch, and exactly one when it succeeds,
\* to users/{uid}/micro/{year}, with a mask of one path, the backtick-quoted
\* MMDD key of the date; after a successful call that key holds the summary
\* sent, every other day's summary in the document holds the value it had,
\* and no other document, the food day bucket among them, has changed.
C20_OneMaskedWrite == [][C20_Step]_vars

\* A summary of 2024-03-15 written next to the summary of 02-29, which stays.
C20_Witness ==
    /\ op.name = "sync_day"
    /\ op.result.ok
    /\ op.args.date = Date(2024, 3, 15)
    /\ Len(op.patches) = 1
    /\ DOMAIN At(store, C20_MicroPath(op)).fields = {K0229, K0315}
    /\ At(store, C20_MicroPath(op)).fields[K0229] = AppObject
    /\ At(store, C20_MicroPath(op)).fields[K0315] = op.patches[1].fields[K0315]
    /\ At(store, FoodPath(op.args.date)) = At(op.args.mid, FoodPath(op.args.date))

(***************************************************************************)
(* Claims about what is read after a write.                                *)
(***************************************************************************)
LogOps == {"log_food", "log_searched_food"}

\* What get_food_log returns for `date` on the store as it is, when its fetch
\* is answered.
C21_ReadBack(date) ==
    get_food_log(store, date, "none", AnyOrder(DOMAIN At(store, FoodPath(date)).fields)).entries

\* The calories logged: the calories passed to log_food, or
\* calories_per_100g * serving.gram_weight / 100 * quantity.
C21_Logged(o) ==
    IF o.name = "log_food" THEN o.args.given.calories
    ELSE FMul(FDiv(FMul(o.args.given.food.calories_per_100g,
                        o.args.given.serving.gram_weight), 1000),
              o.args.given.quantity)

C22_Returned(st, date) ==
    LET es == get_food_log(st, date, "none",
                           AnyOrder(DOMAIN At(st, FoodPath(date)).fields)).entries
    IN  [n |-> Len(es), set |-> {es[i] : i \in 1..Len(es)}]

C22_Step ==
    (nops' # nops /\ op'.name = "delete_food_entry" /\ op'.result.ok) =>
        LET before == C22_Returned(store, op'.args.date)
            after == C22_Returned(store', op'.args.date)
            others == {e \in before.set : e.entry_id # op'.args.key}
        IN  /\ \A e \in after.set : e.entry_id # op'.args.key
            /\ after.set = others
            /\ after.n = Cardinality(others)

\* C22: right after a successful delete_food_entry(date, id), get_food_log(date)
\* returns no entry whose entry_id is id, and returns every other entry it
\* returned before, as it was, and nothing else.
C22_DeletedEntryIsGone == [][C22_Step]_vars

\* The live entry of 2024-03-15 has been deleted; the two others are returned.
C22_Witness ==
    /\ op.name = "delete_food_entry"
    /\ op.result.ok
    /\ op.args.key = Id1700000
    /\ op.args.date = Date(2024, 3, 15)
    /\ {e.entry_id : e \in C22_Returned(store, op.args.date).set} = {Id1680000, Id1650000}

\* What get_weight_entries returns for the range on the store as it is, when
\* every fetch is answered.
C23_ReadBack(range) ==
    SortByDate(ScanYears("scale", range[1].y, range[2].y, store,
                         AnyOrder(KeysOf(store, "scale")), range[1], range[2],
                         0, "none").entries)

C23_Contains(range, d) ==
    C12_Ordinal(range[1]) <= C12_Ordinal(d) /\ C12_Ordinal(d) <= C12_Ordinal(range[2])

C23_ScaleBucket(y) == At(store, Path("scale", IntToString(y))).fields

\* The day codes of the scale buckets, other than that of the date `d`, that
\* hold an object and stand for a date of the range.
C23_OtherEntries(range, d) ==
    {<<y, k>> \in Years \X KeysOf(store, "scale") :
        /\ k \in DOMAIN C23_ScaleBucket(y)
        /\ C11_FourDigits(k)
        /\ C12_DateOf(y, k) # d
        /\ C10_RealDate(C12_DateOf(y, k))
        /\ "mapValue" \in DOMAIN C23_ScaleBucket(y)[k].o
        /\ C23_Contains(range, C12_DateOf(y, k))}

\* What the read returns is the one entry logged.
C23_OnlyTheLogged(o, range) ==
    /\ Len(C23_ReadBack(range)) = 1
    /\ C23_ReadBack(range)[1].date = o.args.date
    /\ C23_ReadBack(range)[1].weight = o.args.given[1]
    /\ C23_ReadBack(range)[1].body_fat = o.args.given[2]

\* C23: right after a successful log_weight(date, w, body_fat) into buckets
\* that hold no other entry of the range, get_weight_entries over a range
\* that contains the date returns exactly one entry, dated date, with weight
\* w and the body fat given (none when none was given); this also when the
\* date had an entry before, which the call replaces.
C23_OneEntryAfterLogWeight ==
    (op.name = "log_weight" /\ op.result.ok) =>
        \A range \in RangePool :
            (C23_Contains(range, op.args.date) /\ C23_OtherEntries(range, op.args.date) = {})
                => C23_OnlyTheLogged(op, range)

\* The same, on buckets whose keys of four characters are all day codes.
C23_OneEntryAmongDayCodes ==
    (op.name = "log_weight" /\ op.result.ok
        /\ \A y \in Years : \A k \in DOMAIN C23_ScaleBucket(y) :
               (Len(k) = 4 /\ Head(k) # "_") => AllDigits(k)) =>
        \A range \in RangePool :
            (C23_Contains(range, op.args.date) /\ C23_OtherEntries(range, op.args.date) = {})
                => C23_OnlyTheLogged(op, range)

\* 70.5 kg and no body fat logged for 2024-03-15 and read back alone.
C23_Witness ==
    /\ op.name = "log_weight"
    /\ op.result.ok
    /\ op.args.date = Date(2024, 3, 15)
    /\ op.args.given = <<705, None>>
    /\ C23_OtherEntries(<<Date(2024, 1, 1), Date(2024, 12, 31)>>, op.args.date) = {}
    /\ Len(C23_ReadBack(<<Date(2024, 1, 1), Date(2024, 12, 31)>>)) = 1
    /\ C23_ReadBack(<<Date(2024, 1, 1), Date(2024, 12, 31)>>)[1].weight = 705

\* The codes sync_day accumulates from the bucket its second fetch hands
\* over: the keys of digits, the four macro codes aside, that a live entry
\* carries a number for.
C24_Accumulated(o) ==
    {code \in (AllCodes \cup OtherCodes) \ MacroCodes :
        C19_Carriers(o.args.mid, o.args.date, code) # {}}

\* C24: every code sync_day has accumulated a total for is in the summary it
\* writes, with that total.
C24_NoTotalIsDropped ==
    (op.name = "sync_day" /\ op.patches # <<>> /\ op.args.fault2 = "none") =>
        \A code \in C24_Accumulated(op) :
            /\ code \in DOMAIN C17_Written(op)
            /\ C17_Written(op)[code] =
                   to_firestore_value(JStr(FormatF64(C19_Sum(op.args.mid, op.args.date, code))))

\* An hour or a minute as a whole number: 0 when it is missing or is not
\* made of decimal digits.
C25_Number(text) ==
    IF text.some /\ text.v # <<>> /\ \A i \in 1..Len(text.v) : IsDigit(text.v[i])
    THEN DigitsValue(text.v, 0, 9999)
    ELSE 0

\* Minutes counted so that a later (hour, minute) has the larger number.
C25_Time(e) == C25_Number(e.hour) * 10000 + C25_Number(e.minute)

\* C25: get_food_log returns its entries in non-decreasing order of (hour,
\* minute), taken as whole numbers with 0 for a missing or unparsable one,
\* and entries of the same time in the order the decoded document has them.
C25_SortedByTime ==
    (op.name = "get_food_log" /\ op.result.ok) =>
        \A i, j \in 1..Len(op.result.entries) :
            i < j =>
                LET a == op.result.entries[i]
                    b == op.result.entries[j]
                IN  /\ C25_Time(a) <= C25_Time(b)
                    /\ C25_Time(a) = C25_Time(b) =>
                           C13_Position(op.args.order, a.entry_id)
                               < C13_Position(op.args.order, b.entry_id)

\* The day of 2023-02-28 read with the second entry of 9:30 met first: the
\* entry without a time leads, the two of 9:30 follow as met, 12:05 is last.
C25_Witness ==
    /\ op.name = "get_food_log"
    /\ op.result.ok
    /\ Len(op.result.entries) = 4
    /\ C13_Position(op.args.order, IdC) < C13_Position(op.args.order, IdA)
    /\ op.result.entries[1].entry_id = IdD
    /\ op.result.entries[2].entry_id = IdC
    /\ op.result.entries[3].entry_id = IdA
    /\ op.result.entries[4].entry_id = IdB

(***************************************************************************)
(* Claims about every operation of the client.                             *)
(***************************************************************************)
WrittenCollections == {"scale", "nutrition", "food", "micro"}

\* The path names a bucket of one of the four collections of the user.
C26_BucketPath(path) ==
    /\ Len(path) = 4
    /\ path[1] = "users"
    /\ path[2] = UserId
    /\ path[3] \in WrittenCollections
    /\ path[4] # <<>>

\* One operation leaves every document of the store in the store and does
\* not create the document of the user.
C26_Step ==
    /\ \A q \in DOMAIN store : q \in DOMAIN store' /\ (store[q].exists => store'[q].exists)
    /\ \A q \in DOMAIN store' \ DOMAIN store : C26_BucketPath(q)

\* C26: every patch an operation sends goes to a bucket document
\* users/{uid}/{scale|nutrition|food|micro}/{bucket} and carries a mask; no
\* operation removes a document or writes the document users/{uid}.
C26_OnlyBucketsAreWritten ==
    /\ [](\A i \in 1..Len(IF op.name = "off" THEN <<>> ELSE op.patches) :
             C26_BucketPath(op.patches[i].path) /\ op.patches[i].mask # <<>>)
    /\ [][C26_Step]_vars

\* log_nutrition on an empty store: the year bucket is the only document.
C26_Witness ==
    /\ op.name = "log_nutrition"
    /\ op.result.ok
    /\ Len(op.patches) = 1
    /\ DOMAIN store = {Path("nutrition", IntToString(op.args.date.y))}
    /\ store[Path("nutrition", IntToString(op.args.date.y))].exists

(***************************************************************************)
(* Claims about list_collection_ids.                                       *)
(***************************************************************************)
\* The ids of the pages, one page after the other.
RECURSIVE C27_Concat(_)
C27_Concat(pages) ==
    IF pages = <<>> THEN <<>>
    ELSE (IF Head(pages).collection_ids.some THEN Head(pages).collection_ids.v ELSE <<>>)
            \o C27_Concat(Tail(pages))

\* The page has no next-token, or an empty one.
C27_Last(page) == ~page.next_page_token.some \/ page.next_page_token.v = ""

\* C27: list_collection_ids sends its requests one after another, the first
\* without a page token and each later one with the next-token of the page
\* before; it stops at the first page whose next-token is absent or empty and
\* returns the ids of all pages in page order; a failed request ends it with
\* an error and no ids; and it comes to an end when the store hands out a
\* page without a next-token after finitely many pages.
C27_PagesUntilNoToken ==
    /\ [](lister.pc # "off" =>
            /\ Len(lister.pages) <= Len(lister.sent)
            /\ Len(lister.sent) <= Len(lister.pages) + 1
            /\ \A i \in 1..Len(lister.sent) :
                  lister.sent[i] = IF i = 1 THEN None
                                   ELSE lister.pages[i - 1].next_page_token
            /\ \A i \in 1..(Len(lister.pages) - 1) : ~C27_Last(lister.pages[i])
            /\ lister.pc = "loop" =>
                  \A i \in 1..Len(lister.pages) : ~C27_Last(lister.pages[i])
            /\ lister.pc = "done" =>
                  /\ lister.pages # <<>>
                  /\ Len(lister.sent) = Len(lister.pages)
                  /\ C27_Last(lister.pages[Len(lister.pages)])
                  /\ lister.result = Some([ok |-> TRUE, ids |-> C27_Concat(lister.pages)])
            /\ lister.pc = "failed" => lister.result = Some([ok |-> FALSE]))
    /\ <>(lister.pc \in {"off", "done", "failed"})

\* Three pages, the last with an empty next-token, and their ids in order.
C27_Witness ==
    /\ lister.pc = "done"
    /\ Len(lister.pages) = 3
    /\ lister.sent = <<None, Some("t1"), Some("t2")>>
    /\ lister.pages[3].next_page_token = Some("")
    /\ lister.result = Some([ok |-> TRUE, ids |-> <<"food", "scale", "micro", "food">>])

(***************************************************************************)
(* Claims about the two values a refresh stores.                           *)
(***************************************************************************)
\* The callers whose call has ended with a refresh of its own.
C28_Refreshed ==
    {c \in Callers : call[c].pc = "done_ok" /\ call[c].resp.some /\ call[c].resp.kind = "ok"}

\* No call is under way, and every response the token endpoint has issued is
\* the response of the last call of some caller.
C28_AllCompleted ==
    /\ \A c \in Callers : call[c].pc \in {"idle", "done_ok", "done_err"}
    /\ issued > 0
    /\ issued = Cardinality({call[c].resp.id_token : c \in C28_Refreshed})

\* The stored refresh credential and the cached id token are those of one
\* response.
C28_SameResponse ==
    \E c \in C28_Refreshed :
        /\ refresh_token = call[c].resp.refresh_token
        /\ cached_token.some
        /\ cached_token.id_token = call[c].resp.id_token

\* A caller looks at the cache while another caller has stored the refresh
\* credential of its response and not yet the id token.
C28_HalfWayObserved ==
    \E c, d \in Callers :
        /\ c # d
        /\ call[c].pc = "check"
        /\ call'[c].pc # "check"
        /\ call[d].pc = "write_cache"

\* C28: once all refreshes have ended, the stored refresh credential and the
\* cached id token come from the same response, and no caller of get_id_token
\* looks at the cache between the two writes of another caller's refresh.
C28_BothFromOneResponse ==
    /\ [](C28_AllCompleted => C28_SameResponse)
    /\ [][~C28_HalfWayObserved]_vars

\* The first half alone.
C28_PairAfterAll == C28_AllCompleted => C28_SameResponse

\* The second half alone.
C28_NeverHalfWay == [][~C28_HalfWayObserved]_vars

(***************************************************************************)
(* Claims about the id of a logged entry.                                  *)
(***************************************************************************)
\* The members of the food bucket of `date`, as stored.
C29_Bucket(st, date) == At(st, FoodPath(date)).fields

\* A step of a successful log_food or log_searched_food.
C29_Logs == nops' # nops /\ op'.name \in LogOps /\ op'.result.ok

\* The bucket has every member it had, as it was, and the logged one.
C29_Kept ==
    LET before == C29_Bucket(store, op'.args.date)
        after == C29_Bucket(store', op'.args.date)
    IN  /\ DOMAIN after = DOMAIN before \cup {op'.args.key}
        /\ \A k \in DOMAIN before \ {op'.args.key} : after[k] = before[k]

\* The id of the call is the id of no member the bucket had.
C29_Fresh == op'.args.key \notin DOMAIN C29_Bucket(store, op'.args.date)

\* C29: every successful log_food or log_searched_food adds one new entry to
\* the bucket of its day and leaves every entry the bucket had unchanged: the
\* id made of the log instant is the id of no entry already in the bucket.
C29_LogAddsOneEntry == [][C29_Logs => (C29_Fresh /\ C29_Kept)]_vars

\* Every member under another id is kept, whether or not the id was new.
C29_OthersAreKept == [][C29_Logs => C29_Kept]_vars

(***************************************************************************)
(* Claims about the two reads of sync_day.                                 *)
(***************************************************************************)
\* The summary the call `o` has sent is the summary of the day bucket of the
\* one store `st`: the macro totals are its sums, and every code of the list
\* is its sum over the live entries that carry it, or null when none does.
C30_SummaryOf(st, o) ==
    /\ C18_TotalsOf(st, o)
    /\ \A code \in AllCodes :
          C17_Written(o)[code] =
              IF C19_Carriers(st, o.args.date, code) # {}
              THEN to_firestore_value(JStr(FormatF64(C19_Sum(st, o.args.date, code))))
              ELSE to_firestore_value(JNull)

\* A step of a sync_day that has sent its summary after an answered first
\* fetch of the day bucket.
C30_Syncs ==
    nops' # nops /\ op'.name = "sync_day" /\ op'.patches # <<>> /\ op'.args.fault1 = "none"

\* C30: the macro totals and the micronutrient totals one sync_day writes are
\* those of one state of the day bucket, the one of its first fetch or the one
\* of its second, also when another client changes the bucket between the two
\* and when the second fetch fails.
C30_SummaryOfOneState ==
    [][C30_Syncs => (C30_SummaryOf(store, op') \/ C30_SummaryOf(op'.args.mid, op'))]_vars

\* The same, for the calls whose second fetch is answered with the bucket the
\* first fetch has seen.
C30_OneStateWhenUndisturbed ==
    [][(C30_Syncs /\ op'.args.fault2 = "none" /\ op'.args.mid = store)
          => C30_SummaryOf(store, op')]_vars

\* The same, for the calls whose second fetch is answered.
C30_OneStateWhenFetched ==
    [][(C30_Syncs /\ op'.args.fault2 = "none")
          => (C30_SummaryOf(store, op') \/ C30_SummaryOf(op'.args.mid, op'))]_vars

\* The same, for the calls during which no other client writes.
C30_OneStateWhenAlone ==
    [][(C30_Syncs /\ op'.args.mid = store)
          => C30_SummaryOf(store, op')]_vars

=============================================================================
